---- MODULE Spec2Model ----
(***************************************************************************)
(* A state-machine model of the goja bytecode VM (src/vm.go): the dispatch *)
(* loop vm.run, the recover/unwind wrapper vm.try, the try instruction,    *)
(* the call-frame manager (saveCtx/pushCtx/restoreCtx/popCtx), the         *)
(* iterator instructions and the interrupt flag.                           *)
(*                                                                         *)
(* The Go call stack is explicit (gs): vm.run, vm.try and try.exec call    *)
(* each other recursively, and a Go panic travels down gs one activation   *)
(* per step until a vm.try activation recovers it or gs is empty (the      *)
(* embedding boundary).                                                    *)
(*                                                                         *)
(* Indices (pc, sp, sb) are 0-based as in Go; a Go slice s is a TLA+       *)
(* sequence and s[i] in Go is s[i+1] here.                                 *)
(***************************************************************************)
EXTENDS Integers, Sequences, FiniteSets, TLC

\* ------------------------------------------------------------------ bounds
\* Number of Interrupt calls the environment makes during one run.
MaxInterrupts == 2
\* Largest configured frame limit (maxCallStackSize, stackDepthLimit) tried.
MaxLimit == 3
\* Length of the chain of nested scripted calls F1 -> F2 -> ...
ChainLen == 3

\* ------------------------------------------------------------------ values
NIL == "nil"
undefined == "undefined"

\* Go panic payloads: t is the dynamic Go type vm.try switches on.
NoPanic == [t |-> "none", v |-> NIL]
Panic(t, v) == [t |-> t, v |-> v]

\* *Exception results of vm.try (nil or carrying ex.val).
NilEx == [nil |-> TRUE, val |-> NIL]
Ex(v) == [nil |-> FALSE, val |-> v]

\* One bytecode instruction; a and b are its operands.
I(op, a, b) == [op |-> op, a |-> a, b |-> b]

\* ------------------------------------------------------------------- state
VARIABLES
  vm,       \* the vm struct: prg, pc, stack, sp, sb, args, stash, newTarget,
            \* result, callStack, iterStack, refStack, halt, interrupted,
            \* interruptVal, maxCallStackSize; spare is the part of
            \* callStack's backing array beyond its length, heap the arrays
            \* the run has created, and calls a history of the state at
            \* each pushCtx, by frame index
  r,        \* the Runtime fields the VM reads: stackDepthLimit
  iters,    \* the iteratorRecord objects created so far (heap)
  scn,      \* the compiled program being run and the iterables it uses
  gs,       \* the Go call stack of vm.run / vm.try / try.exec activations
  panicv,   \* the Go panic in flight (NoPanic when none)
  outcome,  \* what the embedder has observed: "running", "returned", "panicked"
  nint,     \* Interrupt calls made so far
  pend,     \* history: the number of the latest Interrupt call if the loop
            \* has not acted upon it yet, the same number negated once
            \* ClearInterrupt has withdrawn it, else 0
  obs       \* observations of the last step, read by the properties

vars == <<vm, r, iters, scn, gs, panicv, outcome, nint, pend, obs>>

\* ---------------------------------------------------------------- programs
\* The compiler is an external collaborator; these are the instruction
\* sequences it emits for the statements the model runs.  A try statement is
\*   try(c,f); body; halt; jump->end; [catch; halt;] [jump->end; finally;
\*   halt; retFinally]
\* with c and f relative to the try instruction, which is how try.exec
\* (vm.pc = o + catchOffset / o + finallyOffset) and the retFinally test read
\* them.
TryCode(body, hasCatch, cbody, hasFin, fbody) ==
  LET n    == Len(body)
      cpart == IF hasCatch THEN cbody \o <<I("halt", 0, 0)>> ELSE <<>>
      c    == IF hasCatch THEN n + 3 ELSE 0
      nxt  == n + 3 + Len(cpart)
      f    == IF hasFin THEN nxt + 1 ELSE 0
      e    == IF hasFin THEN nxt + 1 + Len(fbody) + 2 ELSE nxt
      fpart == IF hasFin
               THEN <<I("jump", e - nxt, 0)>> \o fbody
                      \o <<I("halt", 0, 0), I("retFinally", 0, 0)>>
               ELSE <<>>
  IN  <<I("try", c, f)>> \o body
        \o <<I("halt", 0, 0), I("jump", e - (n + 2), 0)>> \o cpart \o fpart

\* for (x of iterable) { lbody }: the iterator record is pushed by iterateP,
\* stepped by iterNext, and popped by enumPop when the iterator is exhausted.
ForOf(iterable, lbody) ==
  LET nl == Len(lbody)
  IN  <<I("loadVal", iterable, 0), I("iterateP", 0, 0), I("iterNext", 4 + nl, 0),
        I("enumGet", 0, 0), I("pop", 0, 0)>>
        \o lbody \o <<I("jump", 0 - (3 + nl), 0), I("enumPop", 0, 0)>>

\* break inside a for-of body of nl instructions, placed at index i of it.
BreakOf(nl, i) == <<I("enumPopClose", 0, 0), I("jump", nl - i + 1, 0)>>

ThrowA == <<I("loadVal", "a", 0), I("loadVal", "b", 0), I("throw", 0, 0)>>

\* The largest number of arguments a call passes and of parameters a
\* function declares.
MaxArgs == 2

ArgNames == <<"a1", "a2", "a3", "a4">>

\* The n argument expressions of a call: constants.
PushArgs(n) == [i \in 1..n |-> I("loadVal", ArgNames[i], 0)]

\* Functions of the programs have one local in the scope record after the
\* parameters and one local on the stack.
StashSize(numArgs) == numArgs + 1
StackSize == 1

ChainNames == <<"F1", "F2", "F3", "F4", "F5", "F6">>
FuncIds == {ChainNames[i] : i \in 1..ChainLen} \cup {"Fthrow", "Fretfin", "Frettry", "Fnt"}

\* Callees that are not *funcObject: a method, an arrow function, an arrow
\* function that calls the ordinary function Fnt, a native function
\* with and without a Go function (f.f == nil), a bound function, a callable
\* proxy, a lazy object whose create gives a native function, and an object
\* that is no function.
LeafIds == {"Meth", "Arrow", "ArrowNT", "Nat", "NatNil", "Bound", "Proxy", "Lazy", "Obj"}

\* What the function i of the chain calls (the main program is 0): the next
\* function, or after the last one the leaf of the scenario.
Callee(i) == IF i < scn.depth THEN ChainNames[i + 1] ELSE scn.leaf

Body(b) ==
  CASE b = "norm"       -> <<I("loadVal", "a", 0), I("pop", 0, 0)>>
    [] b = "throw"      -> ThrowA
    [] b = "refthrow"   -> <<I("resolveVar1", "x", 0)>> \o ThrowA
    [] b = "typeerr"    -> <<I("loadUndef", 0, 0), I("loadVal", "a", 0), I("call", 0, 0)>>
    [] b = "referr"     -> <<I("resolveVar1Strict", "inh", 0), I("loadVal", "a", 0),
                             I("putValueP", 0, 0)>>
    [] b = "callthrow"  -> <<I("loadUndef", 0, 0), I("loadVal", "Fthrow", 0),
                             I("call", 0, 0), I("pop", 0, 0)>>
    [] b = "chain"      -> <<I("loadUndef", 0, 0), I("loadVal", "F1", 0),
                             I("call", 0, 0), I("pop", 0, 0)>>
    [] b = "leafcall"   -> <<I("loadVal", "r0", 0), I("saveResult", 0, 0),
                             I("loadUndef", 0, 0), I("loadVal", Callee(0), 0)>>
                             \o PushArgs(scn.nargs)
                             \o <<I("call", scn.nargs, 0), I("pop", 0, 0)>>
    [] b = "leafnew"    -> <<I("loadVal", Callee(0), 0)>> \o PushArgs(scn.nargs)
                             \o <<I("new", scn.nargs, 0), I("pop", 0, 0)>>
    [] b = "retfin"     -> <<I("loadUndef", 0, 0), I("loadVal", "Fretfin", 0),
                             I("call", 0, 0), I("pop", 0, 0)>>
    [] b = "rettry"     -> <<I("loadUndef", 0, 0), I("loadVal", "Frettry", 0),
                             I("call", 0, 0), I("pop", 0, 0)>>
    [] b = "iterthrow"  -> ForOf("it1", ThrowA)
    [] b = "iter2throw" -> ForOf("it1", ForOf("it2", ThrowA))
    [] b = "iterbreak"  -> ForOf("it1", BreakOf(2, 0))
    [] b = "iterloop"   -> ForOf("it1", <<I("loadVal", "a", 0), I("pop", 0, 0)>>)
    [] b = "nested"     -> TryCode(ThrowA, FALSE, <<>>, TRUE,
                                   <<I("loadVal", "c", 0), I("pop", 0, 0)>>)
    [] b = "nestediter" -> ForOf("it1", TryCode(ForOf("it2", ThrowA), FALSE, <<>>, TRUE,
                                   <<I("loadVal", "c", 0), I("pop", 0, 0)>>))

CatchBody(c) ==
  CASE c = "norm"   -> <<I("pop", 0, 0)>>
    [] c = "throw"  -> <<I("throw", 0, 0)>>
    [] c = "throwc" -> <<I("pop", 0, 0), I("loadVal", "c", 0), I("throw", 0, 0)>>
    [] OTHER        -> <<>>

\* "break": break out of the finally block (halt, then the jump to the end
\* of the enclosing labelled statement; the block's own halt and retFinally
\* follow it).
FinBody(f) ==
  CASE f = "norm"   -> <<I("loadVal", "c", 0), I("pop", 0, 0)>>
    [] f = "break"  -> <<I("halt", 0, 0), I("jump", 3, 0)>>
    [] f = "throw"  -> <<I("loadVal", "d", 0), I("throw", 0, 0)>>
    [] OTHER        -> <<>>

MainCode(s) ==
  IF s.catch = "none" /\ s.fin = "none"
  THEN Body(s.body) \o <<I("halt", 0, 0)>>
  ELSE TryCode(Body(s.body), s.catch # "none", CatchBody(s.catch),
               s.fin # "none", FinBody(s.fin)) \o <<I("halt", 0, 0)>>

\* The entry instruction of a function with scn.params named parameters,
\* in the variant the scenario selects: enterFuncStashless, enterFunc
\* without and with argsToStash (operand b), or enterFunc1 copying every
\* parameter.
Entry ==
  CASE scn.entry = "stashless" -> I("enterFuncStashless", 0, scn.params)
    [] scn.entry = "stack"     -> I("enterFunc", scn.params, 0)
    [] scn.entry = "stash"     -> I("enterFunc", scn.params, 1)
    [] scn.entry = "one"       -> I("enterFunc1", scn.params, scn.params)

\* The instruction that builds the rest parameter after the scn.params
\* named ones: from the stack when the arguments stay there, from the scope
\* record's extraArgs when they were moved.
Rest ==
  IF scn.entry \in {"stashless", "stack"}
  THEN I("createArgsRestStack", scn.params, 0)
  ELSE I("createArgsRestStash", 0, 0)

ChainIndex(p) == CHOOSE i \in 1..Len(ChainNames) : ChainNames[i] = p

FuncCode(p) ==
  CASE p = "Fthrow"  -> <<I("enterFuncStashless", 0, 0), I("loadVal", "a", 0),
                          I("throw", 0, 0)>>
    [] p = "Fretfin" -> <<I("enterFuncStashless", 0, 0)>>
                          \o TryCode(ThrowA, FALSE, <<>>, TRUE,
                                     <<I("loadVal", "r", 0), I("halt", 0, 0), I("ret", 0, 0)>>)
                          \o <<I("loadUndef", 0, 0), I("ret", 0, 0)>>
    [] p = "Frettry" -> <<I("enterFuncStashless", 0, 0)>>
                          \o TryCode(<<I("loadVal", "r", 0), I("halt", 0, 0), I("ret", 0, 0)>>,
                                     FALSE, <<>>, TRUE,
                                     <<I("loadVal", "c", 0), I("pop", 0, 0)>>)
                          \o <<I("loadUndef", 0, 0), I("ret", 0, 0)>>
    [] p = "Arrow"   -> <<Entry, I("loadVal", "r1", 0), I("saveResult", 0, 0),
                          I("loadVal", "a", 0), I("ret", 0, 0)>>
    [] p = "Meth"    -> <<Entry, Rest, I("ret", 0, 0)>>
    [] p = "ArrowNT" -> <<Entry, I("loadUndef", 0, 0), I("loadVal", "Fnt", 0),
                          I("call", 0, 0), I("pop", 0, 0), I("loadNewTarget", 0, 0),
                          I("ret", 0, 0)>>
    [] p = "Fnt"     -> <<I("enterFuncStashless", 0, 0), I("loadNewTarget", 0, 0),
                          I("ret", 0, 0)>>
    [] OTHER ->
         IF scn.body = "leafcall"
         THEN <<Entry, I("loadUndef", 0, 0), I("loadVal", Callee(ChainIndex(p)), 0)>>
                \o PushArgs(scn.nargs) \o <<I("call", scn.nargs, 0), I("ret", 0, 0)>>
         ELSE IF ChainIndex(p) < ChainLen
         THEN <<I("enterFuncStashless", 0, 0), I("loadUndef", 0, 0),
                I("loadVal", ChainNames[ChainIndex(p) + 1], 0), I("call", 0, 0),
                I("ret", 0, 0)>>
         ELSE <<I("enterFuncStashless", 0, 0), I("loadVal", "a", 0), I("ret", 0, 0)>>

\* ------------------------------------------------------------------- state
Code(p) == IF p = "main" THEN MainCode(scn) ELSE FuncCode(p)

\* stash.obj of a scope record that is not a with scope (nil)
NoObject == [nil |-> TRUE, props |-> {}, unscopables |-> {}]

\* f.stash of a scripted function: a record of its own, without bindings.
FuncStash(v) == <<[obj |-> NoObject, names |-> {}, values |-> <<>>, of |-> v]>>

\* vm.prg.code[vm.pc]; an index outside the slice is a Go run-time panic,
\* which exec raises for the pseudo-instruction "outOfRange".
Instr(m) ==
  IF m.pc + 1 \in DOMAIN Code(m.prg)
  THEN Code(m.prg)[m.pc + 1]
  ELSE [op |-> "outOfRange", a |-> 0, b |-> 0]

Ok(m) == [m |-> m, p |-> NoPanic]
Raise(m, p) == [m |-> m, p |-> p]

At(m, i) == m.stack[i + 1]

expand(s, idx) ==
  IF idx < Len(s) THEN s ELSE s \o [i \in 1..(idx + 1 - Len(s)) |-> NIL]

push(m, v) ==
  LET s == expand(m.stack, m.sp)
  IN  [m EXCEPT !.stack = [s EXCEPT ![m.sp + 1] = v], !.sp = m.sp + 1]

clearStack(m) == [m EXCEPT !.stack = SubSeq(m.stack, 1, m.sp)]

saveCtx(m) ==
  [prg |-> m.prg, stash |-> m.stash, newTarget |-> m.newTarget,
   result |-> m.result, pc |-> m.pc, sb |-> m.sb, args |-> m.args]

restoreCtx(m, ctx) ==
  [m EXCEPT !.prg = ctx.prg, !.stash = ctx.stash, !.newTarget = ctx.newTarget,
            !.result = ctx.result, !.pc = ctx.pc, !.sb = ctx.sb, !.args = ctx.args]

\* History: the state at the pushCtx that makes frame Len(callStack) + 1.
Snap(m) == [ctx |-> saveCtx(m), sp |-> m.sp, frames |-> Len(m.callStack)]

\* vm.callStack = append(vm.callStack, context{}); the appended element
\* takes the first spare slot of the backing array.
appendCtx(m, ctx) ==
  [m EXCEPT !.callStack = Append(m.callStack, ctx),
            !.spare = IF m.spare = <<>> THEN <<>> ELSE Tail(m.spare),
            !.calls = SubSeq(m.calls, 1, Len(m.callStack)) \o <<Snap(m)>>]

\* vm.callStack = vm.callStack[:l]: the elements beyond l stay in the
\* backing array.
truncateCtx(m, l) ==
  [m EXCEPT !.callStack = SubSeq(m.callStack, 1, l),
            !.spare = SubSeq(m.callStack, l + 1, Len(m.callStack)) \o m.spare]

\* pushCtx appending the frame before it tests the limit.
pushCtx_appendFirst(m) ==
  LET m1 == appendCtx(m, saveCtx(m))
  IN  IF m.maxCallStackSize # 0 /\ Len(m1.callStack) >= m.maxCallStackSize
      THEN Raise(m1, Panic("rangeError", "Maximum call stack size exceeded"))
      ELSE Ok(m1)

\* if vm.maxCallStackSize != 0 && len(vm.callStack)+1 >= vm.maxCallStackSize
\* { panic(rangeError(...)) }; append a frame and save the context in it.
pushCtx(m) ==
  IF m.maxCallStackSize # 0 /\ Len(m.callStack) + 1 >= m.maxCallStackSize
  THEN Raise(m, Panic("rangeError", "Maximum call stack size exceeded"))
  ELSE Ok(appendCtx(m, saveCtx(m)))

\* ctx.prg, ctx.stash, ctx.result, ctx.newTarget = nil, nil, nil, nil
clearCtx(ctx) ==
  [ctx EXCEPT !.prg = NIL, !.stash = <<>>, !.result = NIL, !.newTarget = NIL]

\* popCtx leaving the popped element as it is.
popCtx_noClear(m) ==
  LET l == Len(m.callStack) - 1
  IN  truncateCtx(restoreCtx(m, m.callStack[l + 1]), l)

\* l := len(vm.callStack) - 1; ctx := &vm.callStack[l]; vm.restoreCtx(ctx);
\* clear its references; vm.callStack = vm.callStack[:l]
popCtx(m) ==
  LET l  == Len(m.callStack) - 1
      m1 == restoreCtx(m, m.callStack[l + 1])
  IN  truncateCtx([m1 EXCEPT !.callStack[l + 1] = clearCtx(@)], l)

\* The objects of the run: the scripted functions and the other callees.
\* Every other value is a primitive.
IsObject(v) == v \in FuncIds \cup LeafIds

toCallee(m, v) ==
  IF IsObject(v) THEN Ok(m) ELSE Raise(m, Panic("Value", "TypeError"))

\* The dynamic type of obj.self that call.exec switches on.  A lazy object
\* has been replaced by what its create returns when the switch is reached
\* again.
Kind(v) ==
  CASE v \in FuncIds          -> "funcObject"
    [] v = "Meth"             -> "methodFuncObject"
    [] v \in {"Arrow", "ArrowNT"} -> "arrowFuncObject"
    [] v \in {"Nat", "NatNil"} -> "nativeFuncObject"
    [] v = "Bound"            -> "boundFuncObject"
    [] v = "Proxy"            -> "proxyObject"
    [] v = "Lazy"             -> "nativeFuncObject"
    [] OTHER                  -> "object"

\* f.f != nil for the nativeFuncObject behind v.
HasGoFunc(v) == v # "NatNil"

\* The value a native function or a proxy's apply returns.
NativeResult == "nat"

\* s[lo:hi] of a Go slice (0-based, hi exclusive)
Slice(s, lo, hi) == SubSeq(s, lo + 1, hi)

\* vm._nativeCall, and the proxyObject case of call.exec, which differs only
\* in that the Go function is always there.
nativeCall(m, v, n) ==
  IF HasGoFunc(v)
  THEN LET pr == pushCtx(m)
       IN  IF pr.p # NoPanic THEN pr
           ELSE LET m1 == popCtx([pr.m EXCEPT !.prg = NIL,
                                              !.arguments = Slice(m.stack, m.sp - n, m.sp),
                                              !.stack[pr.m.sp - n - 2 + 1] = NativeResult])
                IN  Ok([m1 EXCEPT !.sp = m1.sp - (n + 1), !.pc = m1.pc + 1])
  ELSE Ok([m EXCEPT !.stack[m.sp - n - 2 + 1] = undefined,
                    !.sp = m.sp - (n + 1), !.pc = m.pc + 1])

\* The switch of call.exec on the callee's kind, after the depth check.
call_switch(m, n, v) ==
  LET m1 == [m EXCEPT !.pc = m.pc + 1]
      pr == pushCtx(m1)
      m2 == pr.m
      k  == Kind(v)
  IN  CASE k \in {"methodFuncObject", "funcObject"} ->
             IF pr.p # NoPanic THEN pr
             ELSE Ok([m2 EXCEPT !.args = n, !.prg = v, !.stash = FuncStash(v), !.pc = 0,
                        !.stack = [m2.stack EXCEPT
                                     ![m2.sp - n - 1 + 1] = m2.stack[m2.sp - n - 2 + 1],
                                     ![m2.sp - n - 2 + 1] = m2.stack[m2.sp - n - 1 + 1]]])
        [] k = "arrowFuncObject" ->
             IF pr.p # NoPanic THEN pr
             ELSE Ok([m2 EXCEPT !.args = n, !.prg = v, !.stash = FuncStash(v), !.pc = 0,
                        !.newTarget = "arrowNewTarget",
                        !.stack = [m2.stack EXCEPT
                                     ![m2.sp - n - 1 + 1] = "arrowThis",
                                     ![m2.sp - n - 2 + 1] = m2.stack[m2.sp - n - 1 + 1]]])
        [] k \in {"nativeFuncObject", "boundFuncObject", "proxyObject"} ->
             nativeCall(m, v, n)
        [] OTHER -> Raise(m, Panic("Value", "TypeError"))

\* The depth check of call.exec.
depthReached(m) ==
  r.stackDepthLimit # 0 /\ Len(m.callStack) + 1 >= r.stackDepthLimit

\* call_exec with ">" for ">=" in the depth check.
call_exec_gt(m, n) ==
  LET v == At(m, m.sp - n - 1)
      c == toCallee(m, v)
  IN  IF c.p # NoPanic THEN c
      ELSE IF r.stackDepthLimit # 0 /\ Len(m.callStack) + 1 > r.stackDepthLimit
      THEN Raise(m, Panic("rangeError", "Maximum call stack size exceeded"))
      ELSE call_switch(m, n, v)

\* call_exec with the depth check made only for scripted callees.
call_exec_scriptedOnly(m, n) ==
  LET v == At(m, m.sp - n - 1)
      c == toCallee(m, v)
  IN  IF c.p # NoPanic THEN c
      ELSE IF Kind(v) = "funcObject" /\ depthReached(m)
      THEN Raise(m, Panic("rangeError", "Maximum call stack size exceeded"))
      ELSE call_switch(m, n, v)

\* call.exec: toCallee, the depth check, then the switch on the callee's
\* kind.
call_exec(m, n) ==
  LET v == At(m, m.sp - n - 1)
      c == toCallee(m, v)
  IN  IF c.p # NoPanic THEN c
      ELSE IF depthReached(m)
      THEN Raise(m, Panic("rangeError", "Maximum call stack size exceeded"))
      ELSE call_switch(m, n, v)

enterFuncStashless_exec(m, stackSize, eargs) ==
  LET sp == m.sp
      d  == eargs - m.args
      ss == IF d > 0 THEN sp + stackSize + d ELSE sp + stackSize
      s1 == IF d > 0 \/ stackSize > 0 THEN expand(m.stack, ss) ELSE m.stack
      s2 == [i \in 1..Len(s1) |->
               IF i - 1 >= sp /\ i - 1 < ss
               THEN (IF d > 0 /\ i - 1 < sp + d THEN undefined ELSE NIL)
               ELSE s1[i]]
  IN  [m EXCEPT !.sb = sp - m.args - 1,
                !.stack = s2,
                !.args = IF d > 0 THEN eargs ELSE m.args,
                !.sp = ss,
                !.pc = m.pc + 1]

\* A method called on a nil *stash reads a field of it, and a call of a nil
\* func value: a Go run-time panic.
nilDereference == Panic("error", "nilDereference")

\* obj.self.assertConstructor() != nil: ordinary functions, bound functions,
\* callable proxies and lazily created built-ins construct; methods, arrow
\* functions, native functions without a construct behaviour and plain
\* objects do not.
HasConstructor(v) == v \in FuncIds \cup {"Bound", "Proxy", "Lazy"}

\* What a constructor behaviour returns.
Constructed == "constructed"

\* _new.exec: the callee is below the n arguments; the constructor
\* behaviour, else the Go function of a *nativeFuncObject (calling a nil
\* func is a Go run-time panic), else nothing; then vm.sp = sp; vm.pc++.
\* arguments is history: the Arguments of the latest FunctionCall handed to
\* a native function.
new_exec(m, n) ==
  LET sp  == m.sp - n
      obj == At(m, sp - 1)
      m1  == IF HasConstructor(obj) THEN [m EXCEPT !.stack[sp - 1 + 1] = Constructed]
             ELSE IF Kind(obj) = "nativeFuncObject"
             THEN [m EXCEPT !.stack[sp - 1 + 1] = NativeResult,
                            !.arguments = Slice(m.stack, m.sp - m.args, m.sp)]
             ELSE m
  IN  IF ~HasConstructor(obj) /\ Kind(obj) = "nativeFuncObject" /\ ~HasGoFunc(obj)
      THEN Raise(m, nilDereference)
      ELSE Ok([m1 EXCEPT !.sp = sp, !.pc = m.pc + 1])

\* vm.newStash() and stash.values = make([]Value, stashSize)
newStash(m, stashSize) ==
  [m EXCEPT !.stash = Append(m.stash, [obj |-> NoObject, names |-> {},
                                       values |-> [i \in 1..stashSize |-> NIL],
                                       extraArgs |-> <<>>])]

\* copy(dst, src): the first min(len(dst), len(src)) elements of dst are
\* overwritten.
copy(dst, src) ==
  [i \in 1..Len(dst) |-> IF i <= Len(src) THEN src[i] ELSE dst[i]]

\* vv := s[lo:hi]; for i := range vv { vv[i] = v }
Fill(s, lo, hi, v) == [i \in 1..Len(s) |-> IF i - 1 >= lo /\ i - 1 < hi THEN v ELSE s[i]]

\* enterFunc.exec with the operands stashSize, stackSize, numArgs and
\* argsToStash.
enterFunc_exec(m, stashSize, stackSize, numArgs, argsToStash) ==
  LET sp0 == m.sp
      m1  == newStash([m EXCEPT !.sb = sp0 - m.args - 1], stashSize)
      top == Len(m1.stash)
      offset == m.args - numArgs
      vals == copy(m1.stash[top].values, Slice(m.stack, sp0 - m.args, sp0))
      m2  == IF ~argsToStash THEN m1
             ELSE IF offset > 0
             THEN [m1 EXCEPT !.stash[top].values = vals,
                             !.stash[top].extraArgs =
                                copy([i \in 1..offset |-> NIL],
                                     Slice(m.stack, sp0 - offset, Len(m.stack)))]
             ELSE [m1 EXCEPT !.stash[top].values = Fill(vals, m.args, numArgs, undefined)]
      sp  == IF argsToStash THEN sp0 - m.args ELSE sp0
      d   == numArgs - m.args
      ea  == IF ~argsToStash /\ d > 0 THEN d ELSE 0
      ss  == stackSize + ea
      s1  == expand(m2.stack, sp + ss - 1)
      s2  == IF ea > 0 THEN Fill(s1, sp, sp0 + ea, undefined) ELSE s1
      s3  == Fill(s2, sp + ea, sp + ss, NIL)
  IN  [m2 EXCEPT !.args = IF ea > 0 THEN numArgs ELSE m.args,
                 !.stack = s3, !.sp = sp + ss, !.pc = m.pc + 1]

\* enterFunc1.exec with the operands stashSize, numArgs and argsToCopy.
enterFunc1_exec(m, stashSize, numArgs, argsToCopy) ==
  LET sp  == m.sp
      m1  == newStash([m EXCEPT !.sb = sp - m.args - 1], stashSize)
      top == Len(m1.stash)
      offset  == m.args - argsToCopy
      offset2 == m.args - numArgs
      v0  == m1.stash[top].values
      m2  == IF offset > 0
             THEN [m1 EXCEPT !.stash[top].values =
                                copy(v0, Slice(m.stack, sp - m.args, sp - offset)),
                             !.stash[top].extraArgs =
                                IF offset2 > 0
                                THEN copy([i \in 1..offset2 |-> NIL],
                                          Slice(m.stack, sp - offset2, Len(m.stack)))
                                ELSE <<>>]
             ELSE [m1 EXCEPT !.stash[top].values =
                                LET c == copy(v0, Slice(m.stack, sp - m.args, sp))
                                IN  IF argsToCopy > m.args
                                    THEN Fill(c, m.args, argsToCopy, undefined)
                                    ELSE c]
  IN  [m2 EXCEPT !.pc = m.pc + 1]

\* The array objects of the run, by the order of their creation.
ArrayIds == <<"array1", "array2", "array3", "array4", "array5", "array6">>

\* vm.push(vm.r.newArrayValues(values))
pushArray(m, values) ==
  push([m EXCEPT !.heap = Append(m.heap, values)], ArrayIds[Len(m.heap) + 1])

\* The elements of the array object v.
ArrayOf(m, v) == m.heap[CHOOSE i \in 1..Len(ArrayIds) : ArrayIds[i] = v]

\* createArgsRestStack_exec copying from the slot of the last named
\* parameter.
createArgsRestStack_exec_offByOne(m, n) ==
  LET delta  == m.args - n
      values == IF delta > 0
                THEN copy([i \in 1..delta |-> NIL], Slice(m.stack, m.sb + n, Len(m.stack)))
                ELSE <<>>
  IN  [pushArray(m, values) EXCEPT !.pc = m.pc + 1]

createArgsRestStack_exec(m, n) ==
  LET delta  == m.args - n
      values == IF delta > 0
                THEN copy([i \in 1..delta |-> NIL], Slice(m.stack, m.sb + n + 1, Len(m.stack)))
                ELSE <<>>
  IN  [pushArray(m, values) EXCEPT !.pc = m.pc + 1]

createArgsRestStash_exec(m) ==
  LET top == Len(m.stash)
  IN  [pushArray(m, m.stash[top].extraArgs)
         EXCEPT !.stash[top].extraArgs = <<>>, !.pc = m.pc + 1]

\* ret_exec leaving the result in the slot of this.
ret_exec_resultAtBase(m) ==
  LET m1 == [m EXCEPT !.stack = [m.stack EXCEPT ![m.sb + 1] = m.stack[m.sp - 1 + 1]],
                      !.sp = m.sb + 1]
      m2 == popCtx(m1)
  IN  IF m2.pc < 0 THEN [m2 EXCEPT !.halt = TRUE] ELSE m2

\* _ret.exec: vm.stack[vm.sb-1] = vm.stack[vm.sp-1]; vm.sp = vm.sb;
\* vm.popCtx(); if vm.pc < 0 { vm.halt = true }
ret_exec(m) ==
  LET m1 == [m EXCEPT !.stack = [m.stack EXCEPT ![m.sb - 1 + 1] = m.stack[m.sp - 1 + 1]],
                      !.sp = m.sb]
      m2 == popCtx(m1)
  IN  IF m2.pc < 0 THEN [m2 EXCEPT !.halt = TRUE] ELSE m2

\* _loadNewTarget.exec
loadNewTarget_exec(m) ==
  [push(m, IF m.newTarget # NIL THEN m.newTarget ELSE undefined) EXCEPT !.pc = m.pc + 1]

\* --------------------------------------------------------------- iterators
\* Number of values an iterable yields before it is exhausted.
IterItems == 1

\* What the close operation of an iterable's iterator does when invoked:
\* "ok" returns, "throw" raises a script exception, "fatal" raises an
\* uncatchable condition.
CloseMode(src) == IF src = "it1" THEN scn.cm1 ELSE scn.cm2

\* Runtime.getIterator: a fresh iteratorRecord for the iterable.
\* closes counts the invocations of its close operation, closedAt is the
\* rank of its latest close among the close invocations of all records, and
\* byPop records that enumPopClose took it off the iterator stack; all
\* three are history.
getIterator(it, src) ==
  Append(it, [src |-> src, left |-> IterItems, closes |-> 0, closedAt |-> 0,
              byPop |-> FALSE])

\* The close invocations made so far on the first n records.
RECURSIVE Closes(_, _)
Closes(it, n) == IF n = 0 THEN 0 ELSE it[n].closes + Closes(it, n - 1)

\* iteratorRecord.returnIter: invokes the iterator's close operation.
returnIter(it, id) ==
  LET it1 == [it EXCEPT ![id].closes = @ + 1, ![id].closedAt = Closes(it, Len(it)) + 1]
      cm  == CloseMode(it[id].src)
  IN  [it |-> it1,
       p  |-> CASE cm = "ok"    -> NoPanic
                [] cm = "throw" -> Panic("Value", "closeErr")
                [] OTHER        -> Panic("uncatchable", "closeFatal")]

\* iteratorRecord.step: the next value, or NIL when exhausted, and the
\* exception the iterator's next operation raised, if any.
step(it, id) ==
  IF scn.sm = "throw"
  THEN [it |-> it, value |-> NIL, ex |-> Ex("stepErr")]
  ELSE IF it[id].left > 0
  THEN [it |-> [it EXCEPT ![id].left = @ - 1], value |-> "a", ex |-> NilEx]
  ELSE [it |-> it, value |-> NIL, ex |-> NilEx]

NoIter == 0
EmptyItem == [val |-> NIL, f |-> NIL, iter |-> NoIter]

X(m, it, p) == [m |-> m, it |-> it, p |-> p]

iterateP_exec(m, it) ==
  LET it1 == getIterator(it, At(m, m.sp - 1))
  IN  X([m EXCEPT !.iterStack = Append(m.iterStack, [val |-> NIL, f |-> NIL, iter |-> Len(it1)]),
                  !.sp = m.sp - 1, !.pc = m.pc + 1], it1, NoPanic)

iterNext_exec(m, it, jmp) ==
  LET l  == Len(m.iterStack)
      st == step(it, m.iterStack[l].iter)
  IN  IF ~st.ex.nil
      THEN X([m EXCEPT !.iterStack = SubSeq(m.iterStack, 1, l - 1)], st.it,
             Panic("Value", st.ex.val))
      ELSE IF st.value = NIL
      THEN X([m EXCEPT !.pc = m.pc + jmp], st.it, NoPanic)
      ELSE X([m EXCEPT !.iterStack[l].val = st.value, !.pc = m.pc + 1], st.it, NoPanic)

enumGet_exec(m) == [push(m, m.iterStack[Len(m.iterStack)].val) EXCEPT !.pc = m.pc + 1]

enumPop_exec(m) ==
  [m EXCEPT !.iterStack = SubSeq(m.iterStack, 1, Len(m.iterStack) - 1), !.pc = m.pc + 1]

\* enumPopClose calling returnIter before it takes the record off the stack.
enumPopClose_exec_closeFirst(m, it) ==
  LET l    == Len(m.iterStack)
      item == m.iterStack[l]
      m1   == [m EXCEPT !.iterStack = SubSeq(m.iterStack, 1, l - 1)]
      rr   == IF item.iter # NoIter
              THEN returnIter([it EXCEPT ![item.iter].byPop = TRUE], item.iter)
              ELSE [it |-> it, p |-> NoPanic]
  IN  IF rr.p # NoPanic THEN X(m, rr.it, rr.p)
      ELSE X([m1 EXCEPT !.pc = m1.pc + 1], rr.it, NoPanic)

\* item := vm.iterStack[l]; the record is cleared and cut off; then
\* iter.returnIter(); vm.pc++
enumPopClose_exec(m, it) ==
  LET l    == Len(m.iterStack)
      item == m.iterStack[l]
      m1   == [m EXCEPT !.iterStack = SubSeq(m.iterStack, 1, l - 1)]
      rr   == IF item.iter # NoIter
              THEN returnIter([it EXCEPT ![item.iter].byPop = TRUE], item.iter)
              ELSE [it |-> it, p |-> NoPanic]
  IN  IF rr.p # NoPanic THEN X(m1, rr.it, rr.p)
      ELSE X([m1 EXCEPT !.pc = m1.pc + 1], rr.it, NoPanic)

\* ------------------------------------------------------------ scope records
\* vm.stash is the chain of scope records, the outermost first: the last
\* element is the record vm.stash points to, element i - 1 is the outer of
\* element i, and a pointer to a record is its index (0 is nil).  A record
\* is [obj, names, values]: obj is the object of a with scope, names the
\* map of a name to its slot index i and the bits var (maskVar), cnst
\* (maskConst) and strict (maskStrict), values the slots (NIL: not
\* initialized).
nilSafe(v) == IF v = NIL THEN undefined ELSE v

errAccessBeforeInit == Panic("referenceError", "accessBeforeInit")
errAssignToConst == Panic("typeError", "assignToConst")

\* r.throwReferenceError(name): the "not defined" ReferenceError object
throwReferenceError(name) == Panic("Value", "ReferenceError")

\* obj.self.hasPropertyStr(name) and obj.self.getStr(name, nil)
hasPropertyStr(obj, name) == \E q \in obj.props : q.n = name
getStr(obj, name) ==
  IF hasPropertyStr(obj, name) THEN (CHOOSE q \in obj.props : q.n = name).v ELSE NIL

\* obj.self.setOwnStr(name, v, strict)
setOwnStr(obj, name, v) ==
  [obj EXCEPT !.props = {q \in obj.props : q.n # name} \cup {[n |-> name, v |-> v]}]

stashObjHas(obj, name) == hasPropertyStr(obj, name) /\ name \notin obj.unscopables

\* s.names[name]: exists, and the index word
HasName(st, name) == \E q \in st.names : q.n = name
NameIdx(st, name) == CHOOSE q \in st.names : q.n = name

\* stash.getByIdx(idx)
getByIdx(st, idx) == st.values[idx + 1]

\* stash.getByName(name): the value, whether the name exists, and the panic
\* raised for a lexical binding that is not initialized.
getByName(st, name) ==
  IF ~st.obj.nil
  THEN IF stashObjHas(st.obj, name)
       THEN [v |-> nilSafe(getStr(st.obj, name)), exists |-> TRUE, p |-> NoPanic]
       ELSE [v |-> NIL, exists |-> FALSE, p |-> NoPanic]
  ELSE IF HasName(st, name)
  THEN LET idx == NameIdx(st, name)
           v   == st.values[idx.i + 1]
       IN  IF v = NIL
           THEN IF ~idx.var
                THEN [v |-> NIL, exists |-> FALSE, p |-> errAccessBeforeInit]
                ELSE [v |-> undefined, exists |-> TRUE, p |-> NoPanic]
           ELSE [v |-> v, exists |-> TRUE, p |-> NoPanic]
  ELSE [v |-> NIL, exists |-> FALSE, p |-> NoPanic]

\* stash.createLexBinding(name, isConst)
createLexBinding(st, name, isConst) ==
  IF HasName(st, name) THEN st
  ELSE [st EXCEPT !.names = @ \cup {[n |-> name, i |-> Cardinality(st.names), var |-> FALSE,
                                     cnst |-> isConst, strict |-> isConst]},
                  !.values = Append(@, NIL)]

\* -------------------------------------------------------------- references
\* The global object: hasPropertyStr, hasOwnPropertyStr and getStr of a name.
GlobalHas(name) == name \in {"x", "inh"}
GlobalHasOwn(name) == name = "x"
GlobalGet(name) == IF GlobalHas(name) THEN "g" ELSE NIL

\* stash.createBinding(name, deletable): a var binding; del is the
\* maskDeletable bit of the index word.
createBinding(st, name, deletable) ==
  IF HasName(st, name) THEN st
  ELSE [st EXCEPT !.names = @ \cup {[n |-> name, i |-> Cardinality(st.names), var |-> TRUE,
                                     cnst |-> FALSE, strict |-> FALSE, del |-> deletable]},
                  !.values = Append(@, undefined)]

\* stash.deleteBinding(name): delete(s.names, name)
deleteBinding(st, name) == [st EXCEPT !.names = {q \in @ : q.n # name}]

\* stash.initByName(name, v)
initByName(m, si, name, v) ==
  IF HasName(m.stash[si], name)
  THEN Ok([m EXCEPT !.stash[si].values[NameIdx(m.stash[si], name).i + 1] = v])
  ELSE Raise(m, Panic("referenceError", "notDefined"))

\* The loop of deleteVar.exec from record si outwards: the state and ret.
\* Properties of the global object are taken to be non-configurable.
RECURSIVE deleteVar_scan(_, _, _)
deleteVar_scan(m, si, name) ==
  IF si = 0 THEN [m |-> m, ret |-> ~GlobalHas(name)]
  ELSE IF ~m.stash[si].obj.nil
  THEN IF stashObjHas(m.stash[si].obj, name)
       THEN [m |-> [m EXCEPT !.stash[si].obj.props = {q \in @ : q.n # name}], ret |-> TRUE]
       ELSE deleteVar_scan(m, si - 1, name)
  ELSE IF HasName(m.stash[si], name)
  THEN LET idx == NameIdx(m.stash[si], name)
       IN  IF idx.var /\ idx.del
           THEN [m |-> [m EXCEPT !.stash[si] = deleteBinding(@, name)], ret |-> TRUE]
           ELSE [m |-> m, ret |-> FALSE]
  ELSE deleteVar_scan(m, si - 1, name)

deleteVar_exec(m, name) ==
  LET x == deleteVar_scan(m, Len(m.stash), name)
  IN  [push(x.m, IF x.ret THEN "true" ELSE "false") EXCEPT !.pc = m.pc + 1]

\* A ref: kind is the Go type; base is the pointer to the scope record whose
\* values (stashRef*) or whose object (objRef) it holds, 0 for the global
\* object; strict is objRef.strict or stashRefConst.strictConst.
Ref(kind, name, base, idx, strict) ==
  [kind |-> kind, name |-> name, base |-> base, idx |-> idx, strict |-> strict]

NoRef == Ref("nil", NIL, 0, 0, FALSE)

\* stash.getRefByName(name, strict) of the record at pointer si
getRefByName(m, si, name, strict) ==
  LET st == m.stash[si]
  IN  IF ~st.obj.nil
      THEN IF stashObjHas(st.obj, name) THEN Ref("objRef", name, si, 0, strict) ELSE NoRef
      ELSE IF HasName(st, name)
      THEN LET idx == NameIdx(st, name)
           IN  IF ~idx.var
               THEN IF ~idx.cnst
                    THEN Ref("stashRefLex", name, si, idx.i, FALSE)
                    ELSE Ref("stashRefConst", name, si, idx.i, strict \/ idx.strict)
               ELSE Ref("stashRef", name, si, idx.i, FALSE)
      ELSE NoRef

\* for stash := ...; stash != nil; stash = stash.outer { ref =
\* stash.getRefByName(name, strict); if ref != nil { goto end } } from the
\* record at pointer si outwards; NoRef when the loop ends without a ref.
RECURSIVE Walk(_, _, _, _)
Walk(m, si, name, strict) ==
  IF si = 0 THEN NoRef
  ELSE LET ref == getRefByName(m, si, name, strict)
       IN  IF ref # NoRef THEN ref ELSE Walk(m, si - 1, name, strict)

resolveVar1_exec(m, name) ==
  LET w   == Walk(m, Len(m.stash), name, FALSE)
      ref == IF w # NoRef THEN w ELSE Ref("objRef", name, 0, 0, FALSE)
  IN  [m EXCEPT !.refStack = Append(m.refStack, ref), !.pc = m.pc + 1]

resolveVar1Strict_exec(m, name) ==
  LET w   == Walk(m, Len(m.stash), name, TRUE)
      ref == IF w # NoRef THEN w
             ELSE IF GlobalHas(name) THEN Ref("objRef", name, 0, 0, TRUE)
             ELSE Ref("unresolvedRef", name, 0, 0, FALSE)
  IN  [m EXCEPT !.refStack = Append(m.refStack, ref), !.pc = m.pc + 1]

\* ref.get(): the value (NIL for Go nil) and the panic it raises, if any.
ref_get(m, ref) ==
  CASE ref.kind = "stashRef" ->
         [v |-> nilSafe(m.stash[ref.base].values[ref.idx + 1]), p |-> NoPanic]
    [] ref.kind \in {"stashRefLex", "stashRefConst"} ->
         LET v == m.stash[ref.base].values[ref.idx + 1]
         IN  IF v = NIL THEN [v |-> NIL, p |-> errAccessBeforeInit]
             ELSE [v |-> v, p |-> NoPanic]
    [] ref.kind = "objRef" ->
         [v |-> IF ref.base = 0 THEN GlobalGet(ref.name)
                ELSE getStr(m.stash[ref.base].obj, ref.name),
          p |-> NoPanic]
    [] OTHER -> [v |-> NIL, p |-> throwReferenceError(ref.name)]

\* ref_set with a const reference that is not strict writing as a let
\* reference does.
ref_set_constWrites(m, ref, v) ==
  CASE ref.kind = "stashRef" ->
         Ok([m EXCEPT !.stash[ref.base].values[ref.idx + 1] = v])
    [] ref.kind = "stashRefLex" ->
         IF m.stash[ref.base].values[ref.idx + 1] = NIL
         THEN Raise(m, errAccessBeforeInit)
         ELSE Ok([m EXCEPT !.stash[ref.base].values[ref.idx + 1] = v])
    [] ref.kind = "stashRefConst" ->
         IF ref.strict THEN Raise(m, errAssignToConst)
         ELSE Ok([m EXCEPT !.stash[ref.base].values[ref.idx + 1] = v])
    [] ref.kind = "objRef" ->
         IF ref.base = 0
         THEN IF ref.strict /\ ~GlobalHasOwn(ref.name)
              THEN Raise(m, Panic("referenceError", ref.name))
              ELSE Ok(m)
         ELSE IF ref.strict /\ ~hasPropertyStr(m.stash[ref.base].obj, ref.name)
              THEN Raise(m, Panic("referenceError", ref.name))
              ELSE Ok([m EXCEPT !.stash[ref.base].obj = setOwnStr(@, ref.name, v)])
    [] OTHER -> Raise(m, throwReferenceError(ref.name))

\* ref.set(v): the VM afterwards and the panic it raises, if any.  A write to
\* the global object leaves no trace in the model.
ref_set(m, ref, v) ==
  CASE ref.kind = "stashRef" ->
         Ok([m EXCEPT !.stash[ref.base].values[ref.idx + 1] = v])
    [] ref.kind = "stashRefLex" ->
         IF m.stash[ref.base].values[ref.idx + 1] = NIL
         THEN Raise(m, errAccessBeforeInit)
         ELSE Ok([m EXCEPT !.stash[ref.base].values[ref.idx + 1] = v])
    [] ref.kind = "stashRefConst" ->
         IF ref.strict THEN Raise(m, errAssignToConst) ELSE Ok(m)
    [] ref.kind = "objRef" ->
         IF ref.base = 0
         THEN IF ref.strict /\ ~GlobalHasOwn(ref.name)
              THEN Raise(m, Panic("referenceError", ref.name))
              ELSE Ok(m)
         ELSE IF ref.strict /\ ~hasPropertyStr(m.stash[ref.base].obj, ref.name)
              THEN Raise(m, Panic("referenceError", ref.name))
              ELSE Ok([m EXCEPT !.stash[ref.base].obj = setOwnStr(@, ref.name, v)])
    [] OTHER -> Raise(m, throwReferenceError(ref.name))

getValue_exec(m) ==
  LET ref == m.refStack[Len(m.refStack)]
      g   == ref_get(m, ref)
  IN  IF g.p # NoPanic THEN Raise(m, g.p)
      ELSE IF g.v = NIL THEN Raise(m, throwReferenceError(ref.name))
      ELSE Ok([push(m, g.v) EXCEPT !.pc = m.pc + 1])

putValue_exec(m) ==
  LET l   == Len(m.refStack)
      ref == m.refStack[l]
      m1  == [m EXCEPT !.refStack = SubSeq(m.refStack, 1, l - 1)]
      c   == ref_set(m1, ref, At(m, m.sp - 1))
  IN  IF c.p # NoPanic THEN c
      ELSE Ok([c.m EXCEPT !.pc = m.pc + 1])

putValueP_exec(m) ==
  LET l   == Len(m.refStack)
      ref == m.refStack[l]
      m1  == [m EXCEPT !.refStack = SubSeq(m.refStack, 1, l - 1)]
      c   == ref_set(m1, ref, At(m, m.sp - 1))
  IN  IF c.p # NoPanic THEN c
      ELSE Ok([c.m EXCEPT !.sp = m.sp - 1, !.pc = m.pc + 1])

\* ref.init(v): stashRef.init, stashRefLex.init and stashRefConst.init call
\* the set of their own type; objRef.init writes the property without the
\* strict test; unresolvedRef.init raises as get does.
ref_init(m, ref, v) ==
  CASE ref.kind \in {"stashRef", "stashRefLex", "stashRefConst"} -> ref_set(m, ref, v)
    [] ref.kind = "objRef" ->
         IF ref.base = 0 THEN Ok(m)
         ELSE Ok([m EXCEPT !.stash[ref.base].obj = setOwnStr(@, ref.name, v)])
    [] OTHER -> Raise(m, throwReferenceError(ref.name))

initValueP_exec(m) ==
  LET l   == Len(m.refStack)
      ref == m.refStack[l]
      m1  == [m EXCEPT !.refStack = SubSeq(m.refStack, 1, l - 1)]
      c   == ref_init(m1, ref, At(m, m.sp - 1))
  IN  IF c.p # NoPanic THEN c
      ELSE Ok([c.m EXCEPT !.sp = m.sp - 1, !.pc = m.pc + 1])

\* ------------------------------------------- lexical and dynamic accessors
\* loadStackLex(l).exec: l < 0 is argument -l, l > 0 is variable l
loadStackLex_exec(m, l) ==
  IF l < 0 /\ (0 - l) > m.args
  THEN Ok([push(m, undefined) EXCEPT !.pc = m.pc + 1])
  ELSE LET v == At(m, IF l < 0 THEN m.sb + (0 - l) ELSE m.sb + m.args + l)
       IN  IF v = NIL THEN Raise(m, errAccessBeforeInit)
           ELSE Ok([push(m, v) EXCEPT !.pc = m.pc + 1])

loadStack1Lex_exec(m, l) ==
  LET v == At(m, m.sb + l)
  IN  IF v = NIL THEN Raise(m, errAccessBeforeInit)
      ELSE Ok([push(m, v) EXCEPT !.pc = m.pc + 1])

\* vm.storeStackLex(s)
storeStackLex_exec(m, l) ==
  LET i == IF l < 0 THEN m.sb - l ELSE m.sb + m.args + l
  IN  IF At(m, i) # NIL
      THEN Ok([m EXCEPT !.stack[i + 1] = At(m, m.sp - 1), !.pc = m.pc + 1])
      ELSE Raise(m, errAccessBeforeInit)

\* vm.storeStack1Lex(s)
storeStack1Lex_exec(m, l) ==
  IF l <= 0 THEN Raise(m, Panic("other", "Illegal stack var index"))
  ELSE IF At(m, m.sb + l) # NIL
  THEN Ok([m EXCEPT !.stack[m.sb + l + 1] = At(m, m.sp - 1), !.pc = m.pc + 1])
  ELSE Raise(m, errAccessBeforeInit)

\* stash := vm.stash; for i := 0; i < level; i++ { stash = stash.outer }
Outer(m, level) == Len(m.stash) - level

loadStashLex_exec(m, level, idx) ==
  LET v == getByIdx(m.stash[Outer(m, level)], idx)
  IN  IF v = NIL THEN Raise(m, errAccessBeforeInit)
      ELSE Ok([push(m, v) EXCEPT !.pc = m.pc + 1])

\* vm.setLocalLex(s) with s = level<<24 | idx: storeStashLex.exec
setLocalLex(m, level, idx) ==
  IF m.stash[Outer(m, level)].values[idx + 1] = NIL
  THEN Raise(m, errAccessBeforeInit)
  ELSE Ok([m EXCEPT !.stash[Outer(m, level)].values[idx + 1] = At(m, m.sp - 1),
                    !.pc = m.pc + 1])

\* The scan with stash.getByName over at most n records from pointer si
\* outwards (n = -1: until stash == nil).  si is where it stopped.
RECURSIVE ScanByName(_, _, _, _)
ScanByName(m, si, name, n) ==
  IF n = 0 THEN [found |-> FALSE, v |-> NIL, p |-> NoPanic, si |-> si]
  ELSE IF si = 0
  THEN [found |-> FALSE, v |-> NIL, p |-> IF n < 0 THEN NoPanic ELSE nilDereference, si |-> 0]
  ELSE LET g == getByName(m.stash[si], name)
       IN  IF g.p # NoPanic THEN [found |-> FALSE, v |-> NIL, p |-> g.p, si |-> si]
           ELSE IF g.exists THEN [found |-> TRUE, v |-> g.v, p |-> NoPanic, si |-> si]
           ELSE ScanByName(m, si - 1, name, n - 1)

\* loadDynamic fetching the name from the global object without the walk.
loadDynamic_exec_globalOnly(m, name) ==
  IF GlobalGet(name) = NIL THEN Raise(m, throwReferenceError(name))
  ELSE Ok([push(m, GlobalGet(name)) EXCEPT !.pc = m.pc + 1])

loadDynamic_exec(m, name) ==
  LET f   == ScanByName(m, Len(m.stash), name, 0 - 1)
      val == IF f.found THEN f.v ELSE GlobalGet(name)
  IN  IF f.p # NoPanic THEN Raise(m, f.p)
      ELSE IF val = NIL THEN Raise(m, throwReferenceError(name))
      ELSE Ok([push(m, val) EXCEPT !.pc = m.pc + 1])

\* The value pushed for the callee when the name is found in a record.
CalleeOfStash(st) == IF ~st.obj.nil THEN "withObject" ELSE undefined

\* loadMixed.exec (lex = FALSE) and loadMixedLex.exec (lex = TRUE)
loadMixed_exec(m, name, level, idx, callee, lex) ==
  LET f  == ScanByName(m, Len(m.stash), name, level)
      m1 == IF callee
            THEN push(m, IF f.found THEN CalleeOfStash(m.stash[f.si]) ELSE undefined)
            ELSE m
  IN  IF f.p # NoPanic THEN Raise(m, f.p)
      ELSE IF f.found THEN Ok([push(m1, f.v) EXCEPT !.pc = m.pc + 1])
      ELSE IF f.si = 0 THEN Ok([m1 EXCEPT !.pc = m.pc + 1])
      ELSE LET v == getByIdx(m.stash[f.si], idx)
           IN  IF lex /\ v = NIL THEN Raise(m1, errAccessBeforeInit)
               ELSE Ok([push(m1, nilSafe(v)) EXCEPT !.pc = m.pc + 1])

VarTypes == {"varTypeVar", "varTypeLet", "varTypeConst", "varTypeStrictConst"}

newStashRef(typ, name, base, idx) ==
  CASE typ = "varTypeVar" -> Ref("stashRef", name, base, idx, FALSE)
    [] typ = "varTypeLet" -> Ref("stashRefLex", name, base, idx, FALSE)
    [] OTHER -> Ref("stashRefConst", name, base, idx, typ = "varTypeStrictConst")

\* The scan of resolveMixed with stash.getRefByName over n records.
RECURSIVE ScanRef(_, _, _, _, _)
ScanRef(m, si, name, strict, n) ==
  IF n = 0 THEN [ref |-> NoRef, p |-> NoPanic, si |-> si]
  ELSE IF si = 0 THEN [ref |-> NoRef, p |-> nilDereference, si |-> 0]
  ELSE LET ref == getRefByName(m, si, name, strict)
       IN  IF ref # NoRef THEN [ref |-> ref, p |-> NoPanic, si |-> si]
           ELSE ScanRef(m, si - 1, name, strict, n - 1)

resolveMixed_exec(m, name, level, idx, typ, strict) ==
  LET f   == ScanRef(m, Len(m.stash), name, strict, level)
      ref == IF f.ref # NoRef THEN f.ref
             ELSE IF f.si # 0 THEN newStashRef(typ, name, f.si, idx)
             ELSE Ref("unresolvedRef", name, 0, 0, FALSE)
  IN  IF f.p # NoPanic THEN Raise(m, f.p)
      ELSE Ok([m EXCEPT !.refStack = Append(m.refStack, ref), !.pc = m.pc + 1])

\* ---------------------------------------------------------------- dispatch
\* vm.prg.code[vm.pc].exec(vm) for every instruction except try, whose exec
\* calls vm.run again and is spread over the actions below.
exec(m, it, ins) ==
  CASE ins.op = "loadVal"   -> X([push(m, ins.a) EXCEPT !.pc = m.pc + 1], it, NoPanic)
    [] ins.op = "loadUndef" -> X([push(m, undefined) EXCEPT !.pc = m.pc + 1], it, NoPanic)
    [] ins.op = "pop"       -> X([m EXCEPT !.sp = m.sp - 1, !.pc = m.pc + 1], it, NoPanic)
    [] ins.op = "halt"      -> X([m EXCEPT !.halt = TRUE, !.pc = m.pc + 1], it, NoPanic)
    [] ins.op = "jump"      -> X([m EXCEPT !.pc = m.pc + ins.a], it, NoPanic)
    [] ins.op = "retFinally" -> X([m EXCEPT !.pc = m.pc + 1], it, NoPanic)
    [] ins.op = "throw"     -> X(m, it, Panic("Value", At(m, m.sp - 1)))
    [] ins.op = "call"      -> LET c == call_exec(m, ins.a) IN X(c.m, it, c.p)
    [] ins.op = "enterFuncStashless" ->
                               X(enterFuncStashless_exec(m, ins.a, ins.b), it, NoPanic)
    [] ins.op = "new" ->
         LET x == new_exec(m, ins.a) IN X(x.m, it, x.p)
    [] ins.op = "saveResult" ->
         X([m EXCEPT !.sp = m.sp - 1, !.result = At(m, m.sp - 1), !.pc = m.pc + 1],
           it, NoPanic)
    [] ins.op = "enterFunc" ->
         X(enterFunc_exec(m, StashSize(ins.a), StackSize, ins.a, ins.b = 1), it, NoPanic)
    [] ins.op = "enterFunc1" ->
         X(enterFunc1_exec(m, StashSize(ins.a), ins.a, ins.b), it, NoPanic)
    [] ins.op = "createArgsRestStack" ->
         X(createArgsRestStack_exec(m, ins.a), it, NoPanic)
    [] ins.op = "createArgsRestStash" ->
         X(createArgsRestStash_exec(m), it, NoPanic)
    [] ins.op = "ret"       -> X(ret_exec(m), it, NoPanic)
    [] ins.op = "loadNewTarget" -> X(loadNewTarget_exec(m), it, NoPanic)
    [] ins.op = "iterateP"  -> iterateP_exec(m, it)
    [] ins.op = "iterNext"  -> iterNext_exec(m, it, ins.a)
    [] ins.op = "enumGet"   -> X(enumGet_exec(m), it, NoPanic)
    [] ins.op = "enumPop"   -> X(enumPop_exec(m), it, NoPanic)
    [] ins.op = "enumPopClose" -> enumPopClose_exec(m, it)
    [] ins.op = "resolveVar1" -> X(resolveVar1_exec(m, ins.a), it, NoPanic)
    [] ins.op = "resolveVar1Strict" -> X(resolveVar1Strict_exec(m, ins.a), it, NoPanic)
    [] ins.op = "putValueP" -> LET c == putValueP_exec(m) IN X(c.m, it, c.p)
    [] ins.op = "outOfRange" -> X(m, it, Panic("error", "indexOutOfRange"))

\* ------------------------------------------------------- Go call stack (gs)
\* An activation of vm.run; pos is where the loop is: "loop" (top of the
\* for), "readval" (flag seen set, payload not yet read), "callback"
\* (interruptFunc about to run), "store" (callback returned), "after" (left
\* the loop by break).  fn is the local interruptFunc; req is history: the
\* number of the Interrupt call whose payload fn was read from.
RunF == [k |-> "run", pos |-> "loop", fn |-> NIL, req |-> 0]

\* An activation of vm.try: the saved context and the four snapshots taken
\* at entry.  entry is the whole VM at entry, kept for the properties.
TryF(m) ==
  [k |-> "try", ctx |-> saveCtx(m), ctxOffset |-> Len(m.callStack), sp |-> m.sp,
   iterLen |-> Len(m.iterStack), refLen |-> Len(m.refStack), entry |-> m]

\* An activation of try.exec: its locals o, ex, pc, and the phase it is in.
\* got says that the vm.runTry / vm.run it called has returned.  The rest is
\* history for the properties: fin counts the starts of the finally block,
\* tryOut and catchOut say how the two blocks ended, sp0 is vm.sp at the try
\* instruction, stoppc is vm.pc where the try/catch part stopped, thrown is
\* the panic the last vm.runTry recovered.
ExecF(o, c, f, sp0) ==
  [k |-> "tryexec", o |-> o, c |-> c, f |-> f, phase |-> "try", got |-> FALSE,
   ex |-> NilEx, pc |-> 0, fin |-> 0, tryOut |-> "none", catchOut |-> "none",
   sp0 |-> sp0, stoppc |-> 0, thrown |-> NoPanic]

Top(s) == s[Len(s)]
Pop(s) == SubSeq(s, 1, Len(s) - 1)

\* ------------------------------------------------------------------ vm.try
\* The type switch of the deferred function: which panics become the
\* returned *Exception.
catchable_uncatchable(x) ==
  x.t \in {"Value", "Exception", "typeError", "referenceError", "rangeError", "uncatchable"}

catchable(x) == x.t \in {"Value", "Exception", "typeError", "referenceError", "rangeError"}

try_ex(x) ==
  CASE x.t = "Value"          -> Ex(x.v)
    [] x.t = "Exception"      -> Ex(x.v)
    [] x.t = "typeError"      -> Ex("TypeError")
    [] x.t = "referenceError" -> Ex("ReferenceError")
    [] x.t = "rangeError"     -> Ex("RangeError")
    [] OTHER                  -> NilEx

\* try_restore without "vm.sp = sp".
try_restore_keepsp(fr, m) ==
  restoreCtx(truncateCtx(m, fr.ctxOffset), fr.ctx)

\* vm.callStack = vm.callStack[:ctxOffset]; vm.restoreCtx(&ctx); vm.sp = sp
try_restore(fr, m) ==
  [restoreCtx(truncateCtx(m, fr.ctxOffset), fr.ctx) EXCEPT !.sp = fr.sp]

\* The tail of the inner deferred function once every iterator is closed.
try_truncate(fr, m) ==
  [m EXCEPT !.iterStack = SubSeq(m.iterStack, 1, fr.iterLen),
            !.refStack = SubSeq(m.refStack, 1, fr.refLen)]

RECURSIVE try_deferred(_, _, _, _)
RECURSIVE try_closeIters(_, _, _, _)
RECURSIVE try_closeIters_noNestedTry(_, _, _, _)

\* try_closeIters calling iter.returnIter() without a nested vm.try around
\* it.
try_closeIters_noNestedTry(fr, m, it, i) ==
  IF fr.iterLen + i >= Len(m.iterStack)
  THEN X(try_truncate(fr, m), it, NoPanic)
  ELSE LET item == m.iterStack[fr.iterLen + i + 1]
           rr   == IF item.iter # NoIter THEN returnIter(it, item.iter)
                                         ELSE [it |-> it, p |-> NoPanic]
       IN  IF rr.p # NoPanic THEN X(m, rr.it, rr.p)
           ELSE try_closeIters_noNestedTry(fr, [m EXCEPT !.iterStack[fr.iterLen + i + 1] = EmptyItem],
                                           rr.it, i + 1)

\* for i := range iterTail: close iterTail[i].iter under a nested vm.try and
\* clear the record.  A panic the nested vm.try does not recover leaves the
\* loop, and the deferred function, at once.
try_closeIters(fr, m, it, i) ==
  IF fr.iterLen + i >= Len(m.iterStack)
  THEN X(try_truncate(fr, m), it, NoPanic)
  ELSE LET item == m.iterStack[fr.iterLen + i + 1]
           rr   == IF item.iter # NoIter THEN returnIter(it, item.iter)
                                         ELSE [it |-> it, p |-> NoPanic]
           d    == IF rr.p = NoPanic THEN X(m, rr.it, NoPanic)
                   ELSE try_deferred(TryF(m), m, rr.it, rr.p)
       IN  IF d.p # NoPanic THEN X(d.m, d.it, d.p)
           ELSE try_closeIters(fr, [d.m EXCEPT !.iterStack[fr.iterLen + i + 1] = EmptyItem],
                               d.it, i + 1)

\* The deferred function of vm.try for a recovered panic x: the switch picks
\* ex or re-panics x; the inner deferred function then restores the context
\* and the stacks.  p is the panic that leaves vm.try (NoPanic when ex is
\* returned).
try_deferred(fr, m, it, x) ==
  LET cl == try_closeIters(fr, try_restore(fr, m), it, 0)
  IN  [m |-> cl.m, it |-> cl.it,
       p |-> IF cl.p # NoPanic THEN cl.p ELSE IF catchable(x) THEN NoPanic ELSE x,
       ex |-> try_ex(x)]

\* ---------------------------------------------------------------- try.exec
\* The parts of try.exec that follow a call of vm.runTry or vm.run.  Each
\* yields the VM, the activations that replace the try.exec activation on gs
\* (none when try.exec is left), the panic it raises, the name of what
\* happened, and the try.exec activation as it is then.
TR(m, frames, p, ev, fr) == [m |-> m, frames |-> frames, p |-> p, ev |-> ev, fr |-> fr]

\* vm.halt = false; if ex != nil { vm.pc = -1; panic(ex) }
try_endPart(fr, m, ex) ==
  LET m1 == [m EXCEPT !.halt = FALSE]
  IN  IF ~ex.nil
      THEN TR([m1 EXCEPT !.pc = 0 - 1], <<>>, Panic("Exception", ex.val), "tryRaise", fr)
      ELSE TR(m1, <<>>, NoPanic, "tryDone", fr)

\* try_finallyPart running the finally block only when nothing is pending.
try_finallyPart_onlyNormal(fr, m, ex) ==
  IF fr.f > 0 /\ ex.nil
  THEN LET fr1 == [fr EXCEPT !.phase = "finally", !.got = FALSE, !.ex = ex, !.pc = m.pc,
                             !.fin = @ + 1, !.stoppc = m.pc]
       IN  TR([m EXCEPT !.pc = fr.o + fr.f, !.halt = FALSE], <<fr1, RunF>>, NoPanic,
              "finally", fr1)
  ELSE try_endPart(fr, m, ex)

\* if t.finallyOffset > 0 { pc := vm.pc; vm.pc = o + finallyOffset; vm.run() ...
try_finallyPart(fr, m, ex) ==
  IF fr.f > 0
  THEN LET fr1 == [fr EXCEPT !.phase = "finally", !.got = FALSE, !.ex = ex, !.pc = m.pc,
                             !.fin = @ + 1, !.stoppc = m.pc]
       IN  TR([m EXCEPT !.pc = fr.o + fr.f, !.halt = FALSE], <<fr1, RunF>>, NoPanic,
              "finally", fr1)
  ELSE try_endPart(fr, m, ex)

\* if ex != nil && t.catchOffset > 0 { vm.pc = o + catchOffset; vm.push(ex.val);
\* ex = vm.runTry(vm.ctx) }
try_catchPart(fr, m, ex) ==
  IF ~ex.nil /\ fr.c > 0
  THEN LET m1  == push([m EXCEPT !.pc = fr.o + fr.c], ex.val)
           fr1 == [fr EXCEPT !.phase = "catch", !.got = FALSE]
       IN  TR([m1 EXCEPT !.halt = FALSE], <<fr1, TryF(m1), RunF>>, NoPanic, "catch", fr1)
  ELSE try_finallyPart(fr, m, ex)

\* try_afterFinally without "ex = nil" in the else branch.
try_afterFinally_keepEx(fr, m) ==
  IF Instr(m).op = "retFinally"
  THEN try_endPart(fr, [m EXCEPT !.pc = fr.pc], fr.ex)
  ELSE try_endPart(fr, m, fr.ex)

\* if vm.prg.code[vm.pc] == retFinally { vm.pc = pc } else { ex = nil }
try_afterFinally(fr, m) ==
  IF Instr(m).op = "outOfRange"
  THEN TR(m, <<>>, Panic("error", "indexOutOfRange"), "tryFault", fr)
  ELSE IF Instr(m).op = "retFinally"
  THEN try_endPart(fr, [m EXCEPT !.pc = fr.pc], fr.ex)
  ELSE try_endPart(fr, m, NilEx)

try_cont(fr, m) ==
  CASE fr.phase = "try" ->
         try_catchPart([fr EXCEPT !.tryOut = IF fr.ex.nil THEN "normal" ELSE "raised"],
                       m, fr.ex)
    [] fr.phase = "catch" ->
         try_finallyPart([fr EXCEPT !.catchOut = IF fr.ex.nil THEN "normal" ELSE "raised"],
                         m, fr.ex)
    [] fr.phase = "finally" -> try_afterFinally(fr, m)

\* ------------------------------------------------------------- interrupts
\* Payloads handed to vm.Interrupt: callbacks (func()) that return, panic
\* with a Go error or panic with another value; an error value; other data.
Callbacks == {"cbOk", "cbPanicErr", "cbPanicVal"}
Payloads == Callbacks \cup {"err", "data"}
IsFunc(v) == v \in Callbacks
IsError(v) == v = "err"

\* What a callback does when called: the panic it raises, if any.
callback(fn) ==
  CASE fn = "cbPanicErr" -> Panic("error", "cbErr")
    [] fn = "cbPanicVal" -> Panic("other", "cbVal")
    [] OTHER             -> NoPanic

\* run_recover without the call of vm.clearStack.
run_recover_noClearStack(m, x) ==
  Raise([m EXCEPT !.interrupted = 0, !.interruptVal = NIL, !.halt = TRUE],
        IF x.t = "error" THEN x ELSE Panic("uncatchable", x.v))

\* The deferred function around interruptFunc() for a recovered panic x.
\* Panic("uncatchable", v) is an uncatchableException whose err is an
\* InterruptedError with iface v.
run_recover(m, x) ==
  Raise(clearStack([m EXCEPT !.interrupted = 0, !.interruptVal = NIL, !.halt = TRUE]),
        IF x.t = "error" THEN x ELSE Panic("uncatchable", x.v))

\* run_after wrapping an error payload as it wraps other data.
run_after_wrapError(m) ==
  IF IsFunc(m.interruptVal)
  THEN LET x == callback(m.interruptVal)
       IN  IF x # NoPanic THEN [m |-> m, p |-> x, ret |-> FALSE]
           ELSE [m |-> [m EXCEPT !.interruptVal = NIL], p |-> NoPanic, ret |-> TRUE]
  ELSE [m |-> [m EXCEPT !.interrupted = 0, !.interruptVal = NIL],
        p |-> Panic("uncatchable", m.interruptVal), ret |-> FALSE]

\* The code of vm.run after the loop when it was left with interrupted set;
\* ret says that vm.run returns normally.
run_after(m) ==
  IF IsFunc(m.interruptVal)
  THEN LET x == callback(m.interruptVal)
       IN  IF x # NoPanic THEN [m |-> m, p |-> x, ret |-> FALSE]
           ELSE [m |-> [m EXCEPT !.interruptVal = NIL], p |-> NoPanic, ret |-> TRUE]
  ELSE IF IsError(m.interruptVal)
  THEN [m |-> [m EXCEPT !.interruptVal = NIL], p |-> Panic("error", m.interruptVal),
        ret |-> FALSE]
  ELSE [m |-> [m EXCEPT !.interrupted = 0, !.interruptVal = NIL],
        p |-> Panic("uncatchable", m.interruptVal), ret |-> FALSE]

Interrupt_exec(m, v) == [m EXCEPT !.interruptVal = v, !.interrupted = 1]

\* vm.ClearInterrupt(): atomic.StoreUint32(&vm.interrupted, 0)
ClearInterrupt_exec(m) == [m EXCEPT !.interrupted = 0]

\* ------------------------------------------------------------- scenarios
Bodies == {"norm", "throw", "refthrow", "typeerr", "referr", "callthrow", "chain",
           "leafcall", "leafnew",
           "retfin", "rettry", "iterthrow", "iter2throw", "iterbreak", "iterloop",
           "nested", "nestediter"}
Iter1Bodies == {"iterthrow", "iterbreak", "iterloop"}
Iter2Bodies == {"iter2throw", "nestediter"}
IntrBodies == {"norm", "throw", "iterthrow", "nested", "chain"}
CloseModes == {"ok", "throw", "fatal"}

\* body, catch and fin select the statement; cm1 and cm2 say what closing
\* the iterators of "it1" and "it2" does; sm says what stepping an iterator
\* does ("throw": its next operation raises); pl and pl2 are the payloads
\* of the first and of the later Interrupt calls another goroutine makes
\* during the run ("none": it makes none).  nargs is the number of arguments
\* every call of the run passes, params the number of named parameters of
\* its scripted functions and entry their entry instruction.
Scenarios ==
  {s \in [body : Bodies, catch : {"none", "norm", "throw", "throwc"},
          fin : {"none", "norm", "break", "throw"},
          cm1 : CloseModes, cm2 : CloseModes, sm : {"ok", "throw"},
          pl : Payloads \cup {"none"}, pl2 : Payloads \cup {"none"}, depth : 0..ChainLen,
          leaf : LeafIds \cup {"none"}] :
     /\ (s.body \notin {"leafcall", "leafnew"} => s.depth = ChainLen /\ s.leaf = "none")
     /\ (s.body = "leafnew" => /\ s.leaf # "none" /\ s.depth = 0
                               /\ s.catch \in {"none", "norm"} /\ s.fin = "none"
                               /\ s.pl = "none")
     /\ (s.body = "leafcall" => /\ s.leaf # "none"
                                /\ s.catch \in {"none", "norm"}
                                /\ s.fin \in {"none", "norm"}
                                /\ s.pl = "none")
     /\ (s.body \notin Iter1Bodies \cup Iter2Bodies => s.cm1 = "ok")
     /\ (s.body \notin Iter2Bodies => s.cm2 = "ok")
     /\ (s.sm = "throw" => s.body \in Iter1Bodies /\ s.cm1 = "ok" /\ s.pl = "none")
     /\ (s.pl = "none" <=> s.pl2 = "none")
     /\ (s.pl # "none" => /\ s.body \in IntrBodies
                          /\ s.catch \in {"none", "norm"}
                          /\ s.fin \in {"none", "norm"}
                          /\ s.cm1 = "ok")}

WithArgs(s, n, p, e) ==
  [body |-> s.body, catch |-> s.catch, fin |-> s.fin, cm1 |-> s.cm1, cm2 |-> s.cm2,
   sm |-> s.sm, pl |-> s.pl, pl2 |-> s.pl2, depth |-> s.depth, leaf |-> s.leaf,
   nargs |-> n, params |-> p, entry |-> e]

EntryKinds == {"stashless", "stack", "stash", "one"}

\* Calls pass arguments, and functions declare parameters, in the runs of a
\* call chain of at most two functions outside any try statement.
ArgsAllowed(s, n, p, e) ==
  \/ n = 0 /\ p = 0 /\ e = "stashless"
  \/ /\ s.body = "leafcall" /\ s.depth <= 1
     /\ s.catch = "none" /\ s.fin = "none"
  \/ s.body = "leafnew" /\ p = 0 /\ e = "stashless"

Limits == 0..MaxLimit

\* vm.init and the embedder's set-up of a run: vm.prg, vm.pc = 0 and the
\* configured limits.
InitVM(M) ==
  [prg |-> "main", pc |-> 0, stack |-> <<>>, sp |-> 0, sb |-> 0 - 1, args |-> 0,
   stash |-> <<>>, newTarget |-> NIL, result |-> NIL,
   callStack |-> <<>>, spare |-> <<>>, calls |-> <<>>, heap |-> <<>>,
   arguments |-> <<>>,
   iterStack |-> <<>>, refStack |-> <<>>,
   halt |-> FALSE, interrupted |-> 0, interruptVal |-> NIL,
   maxCallStackSize |-> M]

Obs(ev, x, pre, fr, y) == [ev |-> ev, x |-> x, pre |-> pre, fr |-> fr, y |-> y]

Init ==
  /\ \E s \in Scenarios :
       \E n \in 0..MaxArgs, p \in 0..MaxArgs, e \in EntryKinds :
         /\ ArgsAllowed(s, n, p, e)
         /\ scn = WithArgs(s, n, p, e)
  /\ \E M \in Limits, N \in Limits :
       /\ (scn.body \notin {"chain", "leafcall"} \/ scn.pl # "none" => M = 0 /\ N = 0)
       /\ (scn.nargs # 0 \/ scn.params # 0 \/ scn.entry # "stashless" => M = 0 /\ N = 0)
       /\ vm = InitVM(M)
       /\ r = [stackDepthLimit |-> N]
  /\ iters = <<>>
  /\ gs = <<TryF(vm), RunF>>
  /\ panicv = NoPanic
  /\ outcome = "running"
  /\ nint = 0
  /\ pend = 0
  /\ obs = Obs("init", NoPanic, vm, RunF, NoPanic)

\* ------------------------------------------------------------------ actions
InLoop(pos) ==
  /\ outcome = "running"
  /\ panicv = NoPanic
  /\ gs # <<>>
  /\ Top(gs).k = "run"
  /\ Top(gs).pos = pos

SetPos(pos, fn) == gs' = [gs EXCEPT ![Len(gs)].pos = pos, ![Len(gs)].fn = fn]

\* vm.run returns normally to its caller: vm.try (which then returns nil to
\* try.exec or to the embedder) or try.exec running a finally block.
RunReturns(g) ==
  IF Top(g).k = "try"
  THEN IF Len(g) = 1
       THEN gs' = <<>> /\ outcome' = "returned"
       ELSE /\ gs' = [Pop(g) EXCEPT ![Len(g) - 1].got = TRUE, ![Len(g) - 1].ex = NilEx,
                                    ![Len(g) - 1].thrown = NoPanic]
            /\ UNCHANGED outcome
  ELSE /\ gs' = [g EXCEPT ![Len(g)].got = TRUE]
       /\ UNCHANGED outcome

\* ExecInstr without the test of the interrupt flag.
ExecInstr_ignoreFlag ==
  /\ InLoop("loop")
  /\ ~vm.halt
  /\ Instr(vm).op # "try"
  /\ LET x == exec(vm, iters, Instr(vm))
     IN  /\ vm' = x.m
         /\ iters' = x.it
         /\ panicv' = x.p
         /\ obs' = Obs("exec", x.p, vm, Top(gs), Instr(vm).op)
  /\ UNCHANGED <<r, scn, gs, outcome, nint, pend>>

\* One iteration of the loop in vm.run with the flag clear: an instruction
\* other than try.
ExecInstr ==
  /\ InLoop("loop")
  /\ ~vm.halt
  /\ vm.interrupted = 0
  /\ Instr(vm).op # "try"
  /\ LET x == exec(vm, iters, Instr(vm))
     IN  /\ vm' = x.m
         /\ iters' = x.it
         /\ panicv' = x.p
         /\ obs' = Obs("exec", x.p, vm, Top(gs), Instr(vm).op)
  /\ UNCHANGED <<r, scn, gs, outcome, nint, pend>>

\* try.exec up to its first call of vm.runTry, and the start of vm.run in it.
ExecTry ==
  /\ InLoop("loop")
  /\ ~vm.halt
  /\ vm.interrupted = 0
  /\ Instr(vm).op = "try"
  /\ LET m1 == [vm EXCEPT !.pc = vm.pc + 1]
         fr == ExecF(vm.pc, Instr(vm).a, Instr(vm).b, vm.sp)
     IN  /\ vm' = [m1 EXCEPT !.halt = FALSE]
         /\ gs' = gs \o <<fr, TryF(m1), RunF>>
         /\ obs' = Obs("enterTry", NoPanic, vm, fr, NoPanic)
  /\ UNCHANGED <<r, iters, scn, panicv, outcome, nint, pend>>

\* for !vm.halt: the loop ends and vm.run returns.
RunExit ==
  /\ InLoop("loop")
  /\ vm.halt
  /\ RunReturns(Pop(gs))
  /\ obs' = Obs("runExit", NoPanic, vm, Top(gs), NoPanic)
  /\ UNCHANGED <<vm, r, iters, scn, panicv, nint, pend>>

\* atomic.LoadUint32(&vm.interrupted) != 0
SeeInterrupt ==
  /\ InLoop("loop")
  /\ ~vm.halt
  /\ vm.interrupted # 0
  /\ SetPos("readval", NIL)
  /\ obs' = Obs("seeInterrupt", NoPanic, vm, Top(gs), NoPanic)
  /\ UNCHANGED <<vm, r, iters, scn, panicv, outcome, nint, pend>>

\* interruptFunc, ok := vm.interruptVal.(func()) under the lock; break if !ok
ReadVal ==
  /\ InLoop("readval")
  /\ IF IsFunc(vm.interruptVal)
     THEN gs' = [gs EXCEPT ![Len(gs)].pos = "callback", ![Len(gs)].fn = vm.interruptVal,
                           ![Len(gs)].req = nint]
     ELSE SetPos("after", NIL)
  /\ obs' = Obs("readVal", NoPanic, vm, Top(gs), NoPanic)
  /\ UNCHANGED <<vm, r, iters, scn, panicv, outcome, nint, pend>>

\* interruptFunc() and, if it panics, the deferred function around it
Callback ==
  /\ InLoop("callback")
  /\ LET x == callback(Top(gs).fn)
     IN  IF x = NoPanic
         THEN /\ SetPos("store", NIL)
              /\ UNCHANGED <<vm, panicv>>
         ELSE /\ vm' = run_recover(vm, x).m
              /\ panicv' = run_recover(vm, x).p
              /\ UNCHANGED gs
  /\ pend' = IF pend = Top(gs).req THEN 0 ELSE pend
  /\ obs' = Obs("callback", panicv', vm, Top(gs), NoPanic)
  /\ UNCHANGED <<r, iters, scn, outcome, nint>>

\* atomic.StoreUint32(&vm.interrupted, 0) after the callback returned
StoreFlag ==
  /\ InLoop("store")
  /\ vm' = [vm EXCEPT !.interrupted = 0]
  /\ SetPos("loop", NIL)
  /\ obs' = Obs("storeFlag", NoPanic, vm, Top(gs), NoPanic)
  /\ UNCHANGED <<r, iters, scn, panicv, outcome, nint, pend>>

\* if interrupted { ... } after the loop
AfterLoop ==
  /\ InLoop("after")
  /\ LET a == run_after(vm)
     IN  /\ vm' = a.m
         /\ panicv' = a.p
         /\ IF a.ret THEN RunReturns(Pop(gs)) ELSE UNCHANGED <<gs, outcome>>
  /\ pend' = 0
  /\ obs' = Obs("afterLoop", panicv', vm, Top(gs), NoPanic)
  /\ UNCHANGED <<r, iters, scn, nint>>

\* try.exec goes on after the vm.runTry or vm.run it called has returned.
TryCont ==
  /\ outcome = "running"
  /\ panicv = NoPanic
  /\ gs # <<>>
  /\ Top(gs).k = "tryexec"
  /\ Top(gs).got
  /\ LET c == try_cont(Top(gs), vm)
     IN  /\ vm' = c.m
         /\ gs' = Pop(gs) \o c.frames
         /\ panicv' = c.p
         /\ obs' = Obs(c.ev, c.p, vm, c.fr, Top(gs).phase)
  /\ UNCHANGED <<r, iters, scn, outcome, nint, pend>>

\* PanicPop with try.exec running its finally block when a panic passes it.
PanicPop_finallyFirst ==
  /\ outcome = "running"
  /\ panicv # NoPanic
  /\ gs # <<>>
  /\ Top(gs).k \in {"run", "tryexec"}
  /\ IF Top(gs).k = "tryexec" /\ Top(gs).f > 0 /\ Top(gs).phase # "finally"
     THEN LET c == try_finallyPart(Top(gs), vm, NilEx)
          IN  /\ vm' = c.m
              /\ gs' = Pop(gs) \o c.frames
              /\ panicv' = NoPanic
              /\ obs' = Obs(c.ev, panicv, vm, c.fr, Top(gs).phase)
     ELSE /\ gs' = Pop(gs)
          /\ obs' = Obs(IF Top(gs).k = "run" THEN "runPanic" ELSE "tryPanic", panicv, vm,
                        Top(gs), NoPanic)
          /\ UNCHANGED <<vm, panicv>>
  /\ UNCHANGED <<r, iters, scn, outcome, nint, pend>>

\* A panic leaves an activation of vm.run or try.exec, which recover nothing.
PanicPop ==
  /\ outcome = "running"
  /\ panicv # NoPanic
  /\ gs # <<>>
  /\ Top(gs).k \in {"run", "tryexec"}
  /\ gs' = Pop(gs)
  /\ obs' = Obs(IF Top(gs).k = "run" THEN "runPanic" ELSE "tryPanic", panicv, vm, Top(gs),
                NoPanic)
  /\ UNCHANGED <<vm, r, iters, scn, panicv, outcome, nint, pend>>

\* A panic reaches an activation of vm.try: its deferred function runs, and
\* vm.try either returns ex to its caller or panics on.
Recover ==
  /\ outcome = "running"
  /\ panicv # NoPanic
  /\ gs # <<>>
  /\ Top(gs).k = "try"
  /\ LET d == try_deferred(Top(gs), vm, iters, panicv)
     IN  /\ vm' = d.m
         /\ iters' = d.it
         /\ panicv' = d.p
         /\ IF d.p = NoPanic
            THEN IF Len(gs) = 1
                 THEN gs' = <<>> /\ outcome' = "exception"
                 ELSE /\ gs' = [Pop(gs) EXCEPT ![Len(gs) - 1].got = TRUE,
                                               ![Len(gs) - 1].ex = d.ex,
                                               ![Len(gs) - 1].thrown = panicv]
                      /\ UNCHANGED outcome
            ELSE gs' = Pop(gs) /\ UNCHANGED outcome
         /\ obs' = Obs("tryExit", panicv, vm, Top(gs), d.p)
  /\ UNCHANGED <<r, scn, nint, pend>>

\* The panic leaves the outermost activation: the embedder sees it.
PanicEscape ==
  /\ outcome = "running"
  /\ panicv # NoPanic
  /\ gs = <<>>
  /\ outcome' = "panicked"
  /\ obs' = Obs("escape", panicv, vm, RunF, NoPanic)
  /\ UNCHANGED <<vm, r, iters, scn, gs, panicv, nint, pend>>

\* The payload of the k-th Interrupt call.
PayloadOf(k) == IF k = 1 THEN scn.pl ELSE scn.pl2

\* vm.Interrupt(v), called from another goroutine while the run is going on.
Interrupt ==
  /\ outcome = "running"
  /\ gs # <<>>
  /\ scn.pl # "none"
  /\ nint < MaxInterrupts
  /\ vm' = Interrupt_exec(vm, PayloadOf(nint + 1))
  /\ nint' = nint + 1
  /\ pend' = nint + 1
  /\ UNCHANGED <<r, iters, scn, gs, panicv, outcome, obs>>

\* vm.ClearInterrupt(), called from another goroutine while the run is going
\* on.  With the flag clear already the call changes nothing.
ClearInterrupt ==
  /\ outcome = "running"
  /\ gs # <<>>
  /\ vm.interrupted # 0
  /\ vm' = ClearInterrupt_exec(vm)
  /\ pend' = IF pend > 0 THEN 0 - pend ELSE pend
  /\ UNCHANGED <<r, iters, scn, gs, panicv, outcome, nint, obs>>

Next ==
  \/ ExecInstr
  \/ ExecTry
  \/ RunExit
  \/ SeeInterrupt
  \/ ReadVal
  \/ Callback
  \/ StoreFlag
  \/ AfterLoop
  \/ TryCont
  \/ PanicPop
  \/ Recover
  \/ PanicEscape
  \/ Interrupt
  \/ ClearInterrupt

Spec == Init /\ [][Next]_vars

\* ------------------------------------------------- the accessors by themselves
\* A second specification: the VM stands in a scope chain of up to
\* MaxScopes records and executes up to ScopeSteps accessor instructions for
\* the name scn.name, each with operands the compiler can give it.
MaxScopes == 2
ScopeSteps == 2

ScopeNames == {"x", "y"}

\* The value bound in the record at pointer i.
StashVal(i) == <<"v1", "v2", "v3", "v4">>[i]

\* Every record has the var "o" in slot 0; the name looked up, when it is
\* bound, has slot 1.
OtherName == [n |-> "o", i |-> 0, var |-> TRUE, cnst |-> FALSE, strict |-> FALSE]

\* The with scopes for a name n: the object lacks the property, has it, or
\* has it and excludes it.
WithRecords(n, v) ==
  { [obj |-> [nil |-> FALSE, props |-> ps, unscopables |-> us], names |-> {}, values |-> <<>>] :
      ps \in {{}, {[n |-> n, v |-> v]}}, us \in {{}, {n}} }
  \ { [obj |-> [nil |-> FALSE, props |-> {}, unscopables |-> {n}], names |-> {}, values |-> <<>>] }

\* The index words of a var, a let, a const and a strict const in slot 1.
NameWords(n) ==
  { [n |-> n, i |-> 1, var |-> TRUE, cnst |-> FALSE, strict |-> FALSE],
    [n |-> n, i |-> 1, var |-> FALSE, cnst |-> FALSE, strict |-> FALSE],
    [n |-> n, i |-> 1, var |-> FALSE, cnst |-> TRUE, strict |-> FALSE],
    [n |-> n, i |-> 1, var |-> FALSE, cnst |-> TRUE, strict |-> TRUE] }

\* The slot-backed records for a name n: without it, or with it in slot 1,
\* initialized or not.
SlotRecords(n, v) ==
  { [obj |-> NoObject, names |-> {OtherName}, values |-> <<"ov">>] }
  \cup { [obj |-> NoObject, names |-> {OtherName, w}, values |-> <<"ov", x>>] :
           w \in NameWords(n), x \in {NIL, v} }

ScopeRecords(n, i) == WithRecords(n, StashVal(i)) \cup SlotRecords(n, StashVal(i))

ScopeChains(n) ==
  UNION { { c \in [1..k -> UNION {ScopeRecords(n, i) : i \in 1..k}] :
              \A i \in 1..k : c[i] \in ScopeRecords(n, i) } : k \in 0..MaxScopes }

\* The frame of a function with one argument or none and two or three stack
\* variables, and the value to store on top.
ScopeVM(chain, args, a, b) ==
  [InitVM(0) EXCEPT !.stack = <<"this", a, b, "new">>, !.sp = 4, !.sb = 0, !.args = args,
                    !.stash = chain]

ScopeInit ==
  /\ scn \in [body : {"scope"}, name : ScopeNames]
  /\ \E chain \in ScopeChains(scn.name), args \in {0, 1}, a \in {NIL, "s1"}, b \in {NIL, "s2"} :
       /\ chain = <<>> \/ (args = 0 /\ a = NIL /\ b = "s2")
       /\ vm = ScopeVM(chain, args, a, b)
  /\ r = [stackDepthLimit |-> 0]
  /\ iters = <<>>
  /\ gs = <<>>
  /\ panicv = NoPanic
  /\ outcome = "scope"
  /\ nint = 0
  /\ pend = 0
  /\ obs = Obs("init", NoPanic, vm, NIL, NIL)

ScopeReady ==
  /\ outcome = "scope"
  /\ panicv = NoPanic
  /\ vm.pc < ScopeSteps

\* One instruction: x is what its exec gives, arg its operands.
ScopeStep(op, arg, x) ==
  /\ vm' = x.m
  /\ panicv' = x.p
  /\ obs' = Obs(op, x.p, vm, arg, NIL)
  /\ UNCHANGED <<r, iters, scn, gs, outcome, nint, pend>>

LoadStackLex ==
  /\ ScopeReady
  /\ \E l \in {0 - 1, 1} : ScopeStep("loadStackLex", [l |-> l], loadStackLex_exec(vm, l))

LoadStack1Lex ==
  /\ ScopeReady
  /\ \E l \in {1, 2} : ScopeStep("loadStack1Lex", [l |-> l], loadStack1Lex_exec(vm, l))

StoreStackLex ==
  /\ ScopeReady
  /\ \E l \in {0 - 1, 1} :
       /\ l < 0 => (0 - l) <= vm.args
       /\ ScopeStep("storeStackLex", [l |-> l], storeStackLex_exec(vm, l))

StoreStack1Lex ==
  /\ ScopeReady
  /\ \E l \in {1, 2} : ScopeStep("storeStack1Lex", [l |-> l], storeStack1Lex_exec(vm, l))

\* The record `level` records out exists and binds the name in slot idx.
BoundAt(level, idx) ==
  /\ Outer(vm, level) >= 1
  /\ vm.stash[Outer(vm, level)].obj.nil
  /\ HasName(vm.stash[Outer(vm, level)], scn.name)
  /\ NameIdx(vm.stash[Outer(vm, level)], scn.name).i = idx

\* The index word of the binding `level` records out.
WordAt(level) == NameIdx(vm.stash[Outer(vm, level)], scn.name)

LoadStashLex ==
  /\ ScopeReady
  /\ \E level \in 0..MaxScopes, idx \in {1} :
       /\ BoundAt(level, idx)
       /\ ~WordAt(level).var
       /\ ScopeStep("loadStashLex", [level |-> level, idx |-> idx],
                    loadStashLex_exec(vm, level, idx))

StoreStashLex ==
  /\ ScopeReady
  /\ \E level \in 0..MaxScopes, idx \in {1} :
       /\ BoundAt(level, idx)
       /\ ~WordAt(level).var
       /\ ~WordAt(level).cnst
       /\ ScopeStep("storeStashLex", [level |-> level, idx |-> idx],
                    setLocalLex(vm, level, idx))

LoadDynamic ==
  /\ ScopeReady
  /\ ScopeStep("loadDynamic", [name |-> scn.name], loadDynamic_exec(vm, scn.name))

ResolveVar1 ==
  /\ ScopeReady
  /\ ScopeStep("resolveVar1", [name |-> scn.name, strict |-> FALSE],
               Ok(resolveVar1_exec(vm, scn.name)))

ResolveVar1Strict ==
  /\ ScopeReady
  /\ ScopeStep("resolveVar1Strict", [name |-> scn.name, strict |-> TRUE],
               Ok(resolveVar1Strict_exec(vm, scn.name)))

\* The operands of a mixed accessor: the binding `level` records out in slot
\* idx, or a level the chain does not reach.
MixedOperands(level, idx) ==
  \/ BoundAt(level, idx)
  \/ level >= Len(vm.stash)

\* The varType the compiler gives a binding, resolved strictly or not.
TypOf(w, strict) ==
  IF w.var THEN "varTypeVar"
  ELSE IF ~w.cnst THEN "varTypeLet"
  ELSE IF w.strict \/ strict THEN "varTypeStrictConst"
  ELSE "varTypeConst"

LoadMixed ==
  /\ ScopeReady
  /\ \E level \in 0..(MaxScopes + 1), idx \in {1} :
       /\ MixedOperands(level, idx)
       /\ BoundAt(level, idx) => WordAt(level).var
       /\ ScopeStep("loadMixed", [name |-> scn.name, level |-> level, idx |-> idx],
                    loadMixed_exec(vm, scn.name, level, idx, FALSE, FALSE))

LoadMixedLex ==
  /\ ScopeReady
  /\ \E level \in 0..(MaxScopes + 1), idx \in {1} :
       /\ MixedOperands(level, idx)
       /\ BoundAt(level, idx) => ~WordAt(level).var
       /\ ScopeStep("loadMixedLex", [name |-> scn.name, level |-> level, idx |-> idx],
                    loadMixed_exec(vm, scn.name, level, idx, FALSE, TRUE))

ResolveMixed ==
  /\ ScopeReady
  /\ \E level \in 0..(MaxScopes + 1), idx \in {1}, typ \in VarTypes, strict \in BOOLEAN :
       /\ MixedOperands(level, idx)
       /\ IF BoundAt(level, idx) THEN typ = TypOf(WordAt(level), strict)
          ELSE typ = "varTypeVar"
       /\ ScopeStep("resolveMixed",
                    [name |-> scn.name, level |-> level, idx |-> idx, typ |-> typ,
                     strict |-> strict],
                    resolveMixed_exec(vm, scn.name, level, idx, typ, strict))

GetValue ==
  /\ ScopeReady
  /\ vm.refStack # <<>>
  /\ ScopeStep("getValue", vm.refStack[Len(vm.refStack)], getValue_exec(vm))

PutValue ==
  /\ ScopeReady
  /\ vm.refStack # <<>>
  /\ ScopeStep("putValue", vm.refStack[Len(vm.refStack)], putValue_exec(vm))

InitValueP ==
  /\ ScopeReady
  /\ vm.refStack # <<>>
  /\ ScopeStep("initValueP", vm.refStack[Len(vm.refStack)], initValueP_exec(vm))

\* stash.createLexBinding(name, isConst) on the record vm.stash points to
CreateLexBinding ==
  /\ ScopeReady
  /\ vm.stash # <<>>
  /\ vm.stash[Len(vm.stash)].obj.nil
  /\ ~HasName(vm.stash[Len(vm.stash)], scn.name)
  /\ \E isConst \in BOOLEAN :
       ScopeStep("createLexBinding", [name |-> scn.name, isConst |-> isConst],
                 Ok([vm EXCEPT !.stash[Len(vm.stash)] = createLexBinding(@, scn.name, isConst),
                               !.pc = vm.pc + 1]))

ScopeNext ==
  \/ LoadStackLex
  \/ LoadStack1Lex
  \/ StoreStackLex
  \/ StoreStack1Lex
  \/ LoadStashLex
  \/ StoreStashLex
  \/ LoadDynamic
  \/ ResolveVar1
  \/ ResolveVar1Strict
  \/ LoadMixed
  \/ LoadMixedLex
  \/ ResolveMixed
  \/ GetValue
  \/ PutValue
  \/ InitValueP
  \/ CreateLexBinding

ScopeSpec == ScopeInit /\ [][ScopeNext]_vars

\* ---------------------------------------------------------------- bindings
\* Declarations and deletions of names in the slot-backed scope record of a
\* function that contains direct eval code: var declarations of the eval
\* code are deletable.
BindSteps == 4
BindNames == {"a", "b", "c"}

BindInit ==
  /\ scn = [body |-> "bind"]
  /\ vm = ScopeVM(<<[obj |-> NoObject, names |-> {}, values |-> <<>>]>>, 0, NIL, "s2")
  /\ r = [stackDepthLimit |-> 0]
  /\ iters = <<>>
  /\ gs = <<>>
  /\ panicv = NoPanic
  /\ outcome = "bind"
  /\ nint = 0
  /\ pend = 0
  /\ obs = Obs("init", NoPanic, vm, NIL, NIL)

BindReady ==
  /\ outcome = "bind"
  /\ panicv = NoPanic
  /\ vm.pc < BindSteps

BindStep(op, arg, x) ==
  /\ vm' = x.m
  /\ panicv' = x.p
  /\ obs' = Obs(op, x.p, vm, arg, NIL)
  /\ UNCHANGED <<r, iters, scn, gs, outcome, nint, pend>>

\* stash.createBinding(name, deletable) on the record vm.stash points to
CreateBinding ==
  /\ BindReady
  /\ \E name \in BindNames, deletable \in BOOLEAN :
       BindStep("createBinding", [name |-> name],
                Ok([vm EXCEPT !.stash[Len(vm.stash)] = createBinding(@, name, deletable),
                              !.pc = vm.pc + 1]))

CreateLex ==
  /\ BindReady
  /\ \E name \in BindNames, isConst \in BOOLEAN :
       BindStep("createLexBinding", [name |-> name],
                Ok([vm EXCEPT !.stash[Len(vm.stash)] = createLexBinding(@, name, isConst),
                              !.pc = vm.pc + 1]))

DeleteVar ==
  /\ BindReady
  /\ \E name \in BindNames :
       BindStep("deleteVar", [name |-> name], Ok(deleteVar_exec(vm, name)))

\* The initialization of a declared name with the value w.
InitByName ==
  /\ BindReady
  /\ \E name \in BindNames :
       /\ HasName(vm.stash[Len(vm.stash)], name)
       /\ LET x == initByName(vm, Len(vm.stash), name, "w")
          IN  BindStep("initByName", [name |-> name],
                       [x EXCEPT !.m.pc = vm.pc + 1])

BindNext == CreateBinding \/ CreateLex \/ DeleteVar \/ InitByName

BindSpec == BindInit /\ [][BindNext]_vars

\* ----------------------------------------------------------------- numbers
\* The numeric values and the arithmetic and relational instructions.  TLC's
\* integers are 32 bits wide, so the widths are scaled: int64 is IntBits
\* bits wide (two's complement) and a float has MantBits bits of mantissa,
\* with maxInt = 1 << 53 scaled to 1 << MantBits.  Floats have no exponent
\* limit here, and only integral floats are rounded to the mantissa.
IntBits == 8
MantBits == 5

RECURSIVE Pow2(_)
Pow2(k) == IF k = 0 THEN 1 ELSE 2 * Pow2(k - 1)

maxInt == Pow2(MantBits)
MinInt64 == 0 - Pow2(IntBits - 1)
MaxInt64 == Pow2(IntBits - 1) - 1

Abs(x) == IF x < 0 THEN 0 - x ELSE x

RECURSIVE Gcd(_, _)
Gcd(a, b) == IF b = 0 THEN a ELSE Gcd(b, a % b)

\* A Value of a numeric type t.  A finite number is (-1)^neg * n / d in
\* lowest terms; neg is the sign bit, which a float zero has too.
Num(t, c, neg, n, d) == [t |-> t, c |-> c, neg |-> neg, n |-> n, d |-> d]
valueInt(i) == Num("valueInt", "fin", i < 0, Abs(i), 1)
valueInt64(i) == Num("valueInt64", "fin", i < 0, Abs(i), 1)
NaNValue == Num("valueFloat", "nan", FALSE, 0, 1)
positiveInf == Num("valueFloat", "inf", FALSE, 0, 1)
negativeInf == Num("valueFloat", "inf", TRUE, 0, 1)
positiveZero == Num("valueFloat", "fin", FALSE, 0, 1)
negativeZero == Num("valueFloat", "fin", TRUE, 0, 1)
valueTrue == Num("valueBool", "fin", FALSE, 1, 1)
valueFalse == Num("valueBool", "fin", FALSE, 0, 1)
undefinedValue == Num("undefined", "fin", FALSE, 0, 1)

\* The integer an int-typed value or an integral finite float holds.
IntOf(v) == IF v.neg THEN 0 - v.n ELSE v.n

\* Number of bits of n > 0.
RECURSIVE BitLen(_)
BitLen(n) == IF n = 0 THEN 0 ELSE 1 + BitLen(n \div 2)

\* The magnitude n rounded to MantBits significant bits, ties to even.
RoundMant(n) ==
  LET e == BitLen(n) - MantBits
  IN  IF e <= 0 THEN n
      ELSE LET u    == Pow2(e)
               q    == n \div u
               rem  == n % u
               up   == rem * 2 > u \/ (rem * 2 = u /\ q % 2 = 1)
           IN  (IF up THEN q + 1 ELSE q) * u

\* The finite float (-1)^neg * n / d, in lowest terms and rounded.
Float(neg, n, d) ==
  LET g == Gcd(n, d)
  IN  IF d \div g = 1
      THEN Num("valueFloat", "fin", neg, RoundMant(n \div g), 1)
      ELSE Num("valueFloat", "fin", neg, n \div g, d \div g)

\* float64(i) of an int64 i, and valueFloat(i) in intToValue
FloatOfInt(i) == Float(i < 0, Abs(i), 1)

\* v.ToFloat() of a number
ToFloat(v) == IF v.t = "valueFloat" THEN v ELSE FloatOfInt(IntOf(v))

\* Two's complement wrap-around of Go's int64 arithmetic.
WrapInt64(x) == ((x + Pow2(IntBits - 1)) % Pow2(IntBits)) - Pow2(IntBits - 1)

\* Go's integer division truncates towards zero, and MinInt64 / -1 wraps.
GoDiv(a, b) ==
  WrapInt64((IF (a < 0) = (b < 0) THEN 1 ELSE 0 - 1) * (Abs(a) \div Abs(b)))

\* math.Signbit, math.IsNaN, math.IsInf(f, 0)
Signbit(f) == f.neg
IsNaN(f) == f.c = "nan"
IsInf(f) == f.c = "inf"
IsZero(f) == f.c = "fin" /\ f.n = 0

\* -f
fneg(f) == IF IsNaN(f) THEN f ELSE [f EXCEPT !.neg = ~f.neg]

\* f + g of float64
fadd(f, g) ==
  IF IsNaN(f) \/ IsNaN(g) THEN NaNValue
  ELSE IF IsInf(f) /\ IsInf(g) THEN (IF f.neg = g.neg THEN f ELSE NaNValue)
  ELSE IF IsInf(f) THEN f
  ELSE IF IsInf(g) THEN g
  ELSE LET s == IntOf(f) * g.d + IntOf(g) * f.d
       IN  IF s = 0 THEN Num("valueFloat", "fin", f.neg /\ g.neg, 0, 1)
           ELSE Float(s < 0, Abs(s), f.d * g.d)

\* f - g of float64
fsub(f, g) == fadd(f, fneg(g))

\* f * g of float64
fmul(f, g) ==
  IF IsNaN(f) \/ IsNaN(g) THEN NaNValue
  ELSE IF (IsInf(f) /\ IsZero(g)) \/ (IsZero(f) /\ IsInf(g)) THEN NaNValue
  ELSE IF IsInf(f) \/ IsInf(g) THEN Num("valueFloat", "inf", f.neg # g.neg, 0, 1)
  ELSE Float(f.neg # g.neg, f.n * g.n, f.d * g.d)

\* f / g of float64
fdiv(f, g) ==
  IF IsNaN(f) \/ IsNaN(g) THEN NaNValue
  ELSE IF (IsInf(f) /\ IsInf(g)) \/ (IsZero(f) /\ IsZero(g)) THEN NaNValue
  ELSE IF IsInf(f) \/ IsZero(g) THEN Num("valueFloat", "inf", f.neg # g.neg, 0, 1)
  ELSE IF IsInf(g) THEN Num("valueFloat", "fin", f.neg # g.neg, 0, 1)
  ELSE Float(f.neg # g.neg, f.n * g.d, f.d * g.n)

\* f < g of float64, neither NaN
flt(f, g) ==
  IF IsInf(f) THEN f.neg /\ ~(IsInf(g) /\ g.neg)
  ELSE IF IsInf(g) THEN ~g.neg
  ELSE IntOf(f) * g.d < IntOf(g) * f.d

intToValue(i) ==
  IF i >= 0 - maxInt /\ i <= maxInt THEN valueInt(i) ELSE FloatOfInt(i)

int64ToValue(i) == valueInt64(i)

\* floatToInt(f): [result, ok]
floatToInt(f) ==
  IF (~IsZero(f) \/ ~Signbit(f)) /\ f.c = "fin" /\ f.d = 1 /\ f.n <= maxInt
  THEN [result |-> IntOf(f), ok |-> TRUE]
  ELSE [result |-> 0, ok |-> FALSE]

floatToValue(f) ==
  CASE IsZero(f) /\ Signbit(f) -> negativeZero
    [] IsNaN(f)                -> NaNValue
    [] IsInf(f) /\ ~f.neg      -> positiveInf
    [] IsInf(f) /\ f.neg       -> negativeInf
    [] OTHER                   -> f

assertInt64(v) ==
  CASE v.t = "valueInt"   -> [result |-> IntOf(v), ok |-> TRUE]
    [] v.t = "valueInt64" -> [result |-> IntOf(v), ok |-> TRUE]
    [] OTHER              -> floatToInt(v)

\* The result of _add.exec for two numbers (neither an object nor a string).
add_value(left, right) ==
  IF left.t = "valueInt"
  THEN IF right.t = "valueInt"
       THEN intToValue(WrapInt64(IntOf(left) + IntOf(right)))
       ELSE floatToValue(fadd(FloatOfInt(IntOf(left)), ToFloat(right)))
  ELSE IF left.t = "valueInt64"
  THEN IF right.t = "valueInt64"
       THEN int64ToValue(WrapInt64(IntOf(left) + IntOf(right)))
       ELSE floatToValue(fadd(FloatOfInt(IntOf(left)), ToFloat(right)))
  ELSE floatToValue(fadd(ToFloat(left), ToFloat(right)))

\* The result of _sub.exec
sub_value(left, right) ==
  IF left.t = "valueInt" /\ right.t = "valueInt"
  THEN intToValue(WrapInt64(IntOf(left) - IntOf(right)))
  ELSE IF left.t = "valueInt64" /\ right.t = "valueInt64"
  THEN int64ToValue(WrapInt64(IntOf(left) - IntOf(right)))
  ELSE floatToValue(fsub(ToFloat(left), ToFloat(right)))

\* mul_value without the test for the operands -1 and 0.
mul_value_noNegZero(left, right) ==
  LET l == assertInt64(left)
      g == assertInt64(right)
      res == WrapInt64(l.result * g.result)
  IN  IF l.ok /\ g.ok
         /\ (l.result = 0 \/ g.result = 0 \/ GoDiv(res, l.result) = g.result)
      THEN intToValue(res)
      ELSE floatToValue(fmul(ToFloat(left), ToFloat(right)))

\* The result of _mul.exec
mul_value(left, right) ==
  LET l == assertInt64(left)
      g == assertInt64(right)
      res == WrapInt64(l.result * g.result)
  IN  IF l.ok /\ g.ok
         /\ ((l.result = 0 /\ g.result = 0 - 1) \/ (l.result = 0 - 1 /\ g.result = 0))
      THEN negativeZero
      ELSE IF l.ok /\ g.ok
              /\ (l.result = 0 \/ g.result = 0 \/ GoDiv(res, l.result) = g.result)
      THEN intToValue(res)
      ELSE floatToValue(fmul(ToFloat(left), ToFloat(right)))

\* div_value giving +Inf for every division of a non-zero number by zero.
div_value_unsignedZero(l, g) ==
  LET left  == ToFloat(l)
      right == ToFloat(g)
  IN  IF IsNaN(left) \/ IsNaN(right) THEN NaNValue
      ELSE IF IsInf(left) /\ IsInf(right) THEN NaNValue
      ELSE IF IsZero(left) /\ IsZero(right) THEN NaNValue
      ELSE IF IsInf(left)
      THEN (IF Signbit(left) = Signbit(right) THEN positiveInf ELSE negativeInf)
      ELSE IF IsInf(right)
      THEN (IF Signbit(left) = Signbit(right) THEN positiveZero ELSE negativeZero)
      ELSE IF IsZero(right) THEN positiveInf
      ELSE floatToValue(fdiv(left, right))

\* The result of _div.exec
div_value(l, g) ==
  LET left  == ToFloat(l)
      right == ToFloat(g)
  IN  IF IsNaN(left) \/ IsNaN(right) THEN NaNValue
      ELSE IF IsInf(left) /\ IsInf(right) THEN NaNValue
      ELSE IF IsZero(left) /\ IsZero(right) THEN NaNValue
      ELSE IF IsInf(left)
      THEN (IF Signbit(left) = Signbit(right) THEN positiveInf ELSE negativeInf)
      ELSE IF IsInf(right)
      THEN (IF Signbit(left) = Signbit(right) THEN positiveZero ELSE negativeZero)
      ELSE IF IsZero(right)
      THEN (IF Signbit(left) = Signbit(right) THEN positiveInf ELSE negativeInf)
      ELSE floatToValue(fdiv(left, right))

\* cmp(px, py) of two numbers: valueTrue, valueFalse, or undefined when one
\* of them is NaN.
cmp(px, py) ==
  IF px.t = "valueInt" /\ py.t = "valueInt"
  THEN (IF IntOf(px) < IntOf(py) THEN valueTrue ELSE valueFalse)
  ELSE IF px.t = "valueInt64" /\ py.t = "valueInt64"
  THEN (IF IntOf(px) < IntOf(py) THEN valueTrue ELSE valueFalse)
  ELSE LET nx == ToFloat(px)
           ny == ToFloat(py)
       IN  IF IsNaN(nx) \/ IsNaN(ny) THEN undefinedValue
           ELSE IF flt(nx, ny) THEN valueTrue ELSE valueFalse

op_lt_value(left, right) ==
  LET res == cmp(left, right)
  IN  IF res = undefinedValue THEN valueFalse ELSE res

\* op_lte_value taking an undefined comparison for "not greater".
op_lte_value_nanTrue(left, right) ==
  LET res == cmp(right, left)
  IN  IF res = valueTrue THEN valueFalse ELSE valueTrue

op_lte_value(left, right) ==
  LET res == cmp(right, left)
  IN  IF res = undefinedValue \/ res = valueTrue THEN valueFalse ELSE valueTrue

op_gt_value(left, right) ==
  LET res == cmp(right, left)
  IN  IF res = undefinedValue THEN valueFalse ELSE res

op_gte_value(left, right) ==
  LET res == cmp(left, right)
  IN  IF res = undefinedValue \/ res = valueTrue THEN valueFalse ELSE valueTrue

\* The binary instruction op: the operands are the two top slots, the result
\* replaces the left one; vm.sp--; vm.pc++.
BinaryOps == {"add", "sub", "mul", "div", "op_lt", "op_lte", "op_gt", "op_gte"}

binary_value(op, left, right) ==
  CASE op = "add"    -> add_value(left, right)
    [] op = "sub"    -> sub_value(left, right)
    [] op = "mul"    -> mul_value(left, right)
    [] op = "div"    -> div_value(left, right)
    [] op = "op_lt"  -> op_lt_value(left, right)
    [] op = "op_lte" -> op_lte_value(left, right)
    [] op = "op_gt"  -> op_gt_value(left, right)
    [] op = "op_gte" -> op_gte_value(left, right)

binary_exec(m, op) ==
  [m EXCEPT !.stack[m.sp - 2 + 1] = binary_value(op, At(m, m.sp - 2), At(m, m.sp - 1)),
            !.sp = m.sp - 1,
            !.pc = m.pc + 1]

\* The operands of the runs: small and extreme integers of both integer
\* types and the floats of the special cases.
IntOperands == {0 - maxInt, 0 - 2, 0 - 1, 0, 1, 2, maxInt - 1, maxInt}
Int64Operands == {MinInt64, 0 - maxInt - 1, 0 - 1, 0, 1, maxInt, maxInt + 1, MaxInt64}
FloatOperands ==
  {NaNValue, positiveInf, negativeInf, positiveZero, negativeZero,
   Float(FALSE, 1, 1), Float(TRUE, 1, 1), Float(FALSE, 1, 2), Float(TRUE, 3, 2),
   Float(FALSE, maxInt, 1)}
Operands ==
  {valueInt(i) : i \in IntOperands} \cup {valueInt64(i) : i \in Int64Operands}
    \cup FloatOperands

\* A program of one binary instruction with its two operands on the stack.
NumInit ==
  /\ scn = [body |-> "num"]
  /\ \E left \in Operands, right \in Operands :
       vm = [InitVM(0) EXCEPT !.stack = <<left, right>>, !.sp = 2]
  /\ r = [stackDepthLimit |-> 0]
  /\ iters = <<>>
  /\ gs = <<>>
  /\ panicv = NoPanic
  /\ outcome = "num"
  /\ nint = 0
  /\ pend = 0
  /\ obs = Obs("init", NoPanic, vm, NIL, NIL)

NumStep(op) ==
  /\ outcome = "num"
  /\ vm.pc = 0
  /\ vm' = binary_exec(vm, op)
  /\ obs' = Obs(op, NoPanic, vm, NIL, NIL)
  /\ UNCHANGED <<r, iters, scn, gs, panicv, outcome, nint, pend>>

Add == NumStep("add")
Sub == NumStep("sub")
Mul == NumStep("mul")
Div == NumStep("div")
OpLt == NumStep("op_lt")
OpLte == NumStep("op_lte")
OpGt == NumStep("op_gt")
OpGte == NumStep("op_gte")

NumNext == Add \/ Sub \/ Mul \/ Div \/ OpLt \/ OpLte \/ OpGt \/ OpGte

NumSpec == NumInit /\ [][NumNext]_vars

\* ------------------------------------------------------------- properties
\* The exceptions a script can catch, as raised: a thrown value, an exception
\* re-raised by an inner try instruction, or a type, reference or range error.
IsCatchable(x) == x.t \in {"Value", "Exception", "typeError", "referenceError", "rangeError"}

\* The uncatchable conditions, as raised: an uncatchableException, the error
\* payload of an interrupt or the Go error of its callback, any other Go
\* value.
IsUncatchable(x) == x.t \in {"uncatchable", "InterruptedError", "error", "other"}

\* The value a catch block is to receive for a raised catchable exception.
ThrownValue(x) ==
  CASE x.t = "typeError"      -> "TypeError"
    [] x.t = "referenceError" -> "ReferenceError"
    [] x.t = "rangeError"     -> "RangeError"
    [] OTHER                  -> x.v

\* The iterator records above index n of the iterator stack of m.
OpenIters(m, n) == {m.iterStack[i].iter : i \in (n + 1)..Len(m.iterStack)} \ {NoIter}

\* Closing the iterators the region opened raises nothing uncatchable.
NoFatalClose(fr) == \A id \in OpenIters(vm, fr.iterLen) : CloseMode(iters[id].src) # "fatal"

\* gs has a vm.try activation on top that try.exec called in the given phases.
RegionOnTop(phases) ==
  /\ outcome = "running"
  /\ Len(gs) >= 2
  /\ Top(gs).k = "try"
  /\ gs[Len(gs) - 1].k = "tryexec"
  /\ gs[Len(gs) - 1].phase \in phases

\* try.exec is about to go on after the vm.runTry of the given phase returned.
Returned(phase) ==
  /\ outcome = "running"
  /\ panicv = NoPanic
  /\ gs # <<>>
  /\ Top(gs).k = "tryexec"
  /\ Top(gs).got
  /\ Top(gs).phase = phase

\* C1: a catchable exception raised in a try region that has a catch offset
\* is handed to try.exec as the exception to catch, and try.exec then
\* continues at the catch offset, in a new run of the loop, with vm.sp one
\* above its value at the try instruction and the thrown value in the top
\* slot.
C1_CatchGetsThrownValue ==
  [][ /\ ( /\ RegionOnTop({"try"})
           /\ gs[Len(gs) - 1].c > 0
           /\ IsCatchable(panicv)
           /\ NoFatalClose(Top(gs))
           /\ gs' # gs )
         => /\ Returned("try")'
            /\ Top(gs').ex = Ex(ThrownValue(panicv))
            /\ vm'.sp = gs[Len(gs) - 1].sp0
      /\ ( /\ Returned("try")
           /\ Top(gs).c > 0
           /\ IsCatchable(Top(gs).thrown)
           /\ gs' # gs )
         => /\ vm'.pc = Top(gs).o + Top(gs).c
            /\ vm'.sp = Top(gs).sp0 + 1
            /\ At(vm', vm'.sp - 1) = ThrownValue(Top(gs).thrown)
            /\ panicv' = NoPanic
            /\ ~vm'.halt
            /\ Top(gs').k = "run"
            /\ Top(gs').pos = "loop" ]_vars

\* C1 witness: the catch block has been entered for a range error raised
\* with values on the operand stack above the region's entry level.
C1_Witness ==
  /\ obs.ev = "catch"
  /\ obs.fr.thrown.t = "rangeError"
  /\ At(vm, vm.sp - 1) = "RangeError"
  /\ Len(vm.stack) > vm.sp

\* The four ways of leaving the try/catch part that C2 is about.
C2Case(fr) ==
  \/ fr.tryOut = "normal"
  \/ fr.tryOut = "raised" /\ fr.c = 0
  \/ fr.tryOut = "raised" /\ fr.catchOut = "normal"
  \/ fr.catchOut = "raised"

\* C2: when try.exec of a try instruction with a finally offset is left,
\* normally or by a panic, after its try block finished normally, or raised
\* with no catch, or raised and the catch block finished normally, or the
\* catch block raised, the finally block was started exactly once, at the
\* finally offset.
C2_FinallyExactlyOnce ==
  /\ ( /\ obs.ev \in {"tryDone", "tryRaise", "tryPanic"}
       /\ obs.fr.f > 0
       /\ C2Case(obs.fr) )
     => obs.fr.fin = 1
  /\ obs.ev = "finally"
     => /\ vm.pc = obs.fr.o + obs.fr.f
        /\ obs.fr.fin = 1
        /\ C2Case(obs.fr)
        /\ Top(gs).k = "run"
  /\ \A i \in 1..Len(gs) : gs[i].k = "tryexec" /\ gs[i].f > 0 /\ C2Case(gs[i])
                             => gs[i].fin = 1

\* C2 witness: try.exec re-raises the exception of a catch block that
\* itself raised, after the finally block ran.
C2_Witness ==
  /\ obs.ev = "tryRaise"
  /\ obs.fr.catchOut = "raised"
  /\ obs.fr.fin = 1

\* try.exec has just gone on after its finally block stopped.
AfterFinally == obs.ev \in {"tryDone", "tryRaise"} /\ obs.y = "finally"

\* The finally block stopped at the end-of-finally marker.
AtMarker == Instr(obs.pre).op = "retFinally"

\* C3: when the finally block stops anywhere but at retFinally, the pending
\* exception is dropped and execution goes on where the block stopped; when
\* it stops at retFinally a pending exception is re-raised, and with none
\* pending execution resumes where the try/catch part stopped.
C3_FinallyOutcome ==
  AfterFinally =>
    IF ~AtMarker
    THEN panicv = NoPanic /\ vm.pc = obs.pre.pc
    ELSE IF ~obs.fr.ex.nil
    THEN panicv = Panic("Exception", obs.fr.ex.val)
    ELSE panicv = NoPanic /\ vm.pc = obs.fr.stoppc

\* C3 witness: a finally block left by a break while an exception was
\* pending.
C3_Witness == AfterFinally /\ ~AtMarker /\ ~obs.fr.ex.nil

\* A step of the run itself, not a call of vm.Interrupt or of
\* vm.ClearInterrupt by another goroutine.
RunStep ==
  /\ nint' = nint
  /\ ~(vm.interrupted # 0 /\ vm' = ClearInterrupt_exec(vm) /\ UNCHANGED <<gs, obs>>)

UncatchableAtFinallyRegion ==
  /\ outcome = "running"
  /\ IsUncatchable(panicv)
  /\ gs # <<>>
  /\ Top(gs).k = "tryexec"
  /\ Top(gs).f > 0
  /\ Top(gs).phase \in {"try", "catch"}

C6_TryRestoresEntryState ==
  obs.ev = "tryExit"
  => /\ Len(vm.callStack) = obs.fr.ctxOffset
     /\ vm.sp = obs.fr.sp
     /\ Len(vm.iterStack) = obs.fr.iterLen
     /\ Len(vm.refStack) = obs.fr.refLen
     /\ vm.prg = obs.fr.ctx.prg
     /\ vm.stash = obs.fr.ctx.stash
     /\ vm.pc = obs.fr.ctx.pc
     /\ vm.sb = obs.fr.ctx.sb
     /\ vm.args = obs.fr.ctx.args

\* C7: when vm.try is left after the code under it raised, every for-of
\* iterator whose record was pushed after the entry of vm.try has had its
\* close operation invoked exactly once.
C7_UnwindClosesOnce ==
  obs.ev = "tryExit"
  => \A id \in OpenIters(obs.pre, obs.fr.iterLen) : iters[id].closes = 1

\* C8: an iterator that enumPopClose took off the iterator stack has had its
\* close operation invoked exactly once, and its record is not on the
\* iterator stack, whatever the close operation raised and whichever
\* unwinds followed.
C8_PopCloseOnce ==
  \A id \in 1..Len(iters) :
    iters[id].byPop
    => /\ iters[id].closes = 1
       /\ \A i \in 1..Len(vm.iterStack) : vm.iterStack[i].iter # id

\* C8 witness: the close operation called by enumPopClose raised and the
\* enclosing vm.try has unwound.
C8_Witness ==
  /\ obs.ev = "tryExit"
  /\ obs.x = Panic("Value", "closeErr")
  /\ \E id \in 1..Len(iters) : iters[id].byPop /\ iters[id].closes = 1

\* C9: with a non-zero maximum M the call-frame array never holds more than
\* M frames, and an instruction that raises the range error leaves the
\* call-frame array as it was.
C9_FrameLimit ==
  /\ vm.maxCallStackSize # 0 => Len(vm.callStack) <= vm.maxCallStackSize
  /\ (obs.ev = "exec" /\ obs.x.t = "rangeError") => vm.callStack = obs.pre.callStack

\* C9 witness: pushCtx raised the range error with frames on the array.
C9_Witness ==
  /\ obs.ev = "exec"
  /\ obs.x.t = "rangeError"
  /\ r.stackDepthLimit = 0
  /\ vm.maxCallStackSize = Len(vm.callStack) + 1
  /\ Len(vm.callStack) >= 1

\* A call instruction with a scripted function as callee has just been
\* executed.
CalledFunction ==
  /\ obs.ev = "exec"
  /\ obs.y = "call"
  /\ At(obs.pre, obs.pre.sp - Instr(obs.pre).a - 1) \in FuncIds

\* The non-zero limits configured for the run.
DepthLimits == {vm.maxCallStackSize, r.stackDepthLimit} \ {0}

\* C10 as stated: a call raises the range error exactly when it would make
\* the number of saved frames exceed a configured limit N.
C10_DepthLimit_Original ==
  CalledFunction
  => (obs.x.t = "rangeError" <=> \E N \in DepthLimits : Len(obs.pre.callStack) + 1 > N)

\* C10 (amended): a call raises the range error exactly when it would make
\* the number of saved frames reach a configured limit N; every other call
\* succeeds and saves one frame.
C10_DepthLimit ==
  CalledFunction
  => /\ obs.x.t = "rangeError" <=> \E N \in DepthLimits : Len(obs.pre.callStack) + 1 >= N
     /\ obs.x = NoPanic <=> Len(vm.callStack) = Len(obs.pre.callStack) + 1
     /\ obs.x.t \in {"rangeError", "none"}

\* C10 witness: with depth limit N and no frame limit, the call made with
\* N - 1 saved frames, one at least, raised the range error.
C10_Witness ==
  /\ CalledFunction
  /\ obs.x.t = "rangeError"
  /\ r.stackDepthLimit = Len(obs.pre.callStack) + 1
  /\ vm.maxCallStackSize = 0
  /\ Len(obs.pre.callStack) >= 1

\* The callee of the call instruction that has just been executed.
CalleeOf(m) == At(m, m.sp - Instr(m).a - 1)

\* A call instruction whose callee is an object has just been executed.
CalledObject ==
  /\ obs.ev = "exec"
  /\ obs.y = "call"
  /\ IsObject(CalleeOf(obs.pre))

\* The non-zero limit L is reached by the frame count of m.
LimitReached(L, m) == L # 0 /\ Len(m.callStack) + 1 >= L

\* Calling v saves a frame: v is a function that has code to run.
SavesFrame(v) == Kind(v) # "object" /\ HasGoFunc(v)

\* C11: a call raises the range error exactly when the call-time limit is
\* non-zero and reached, whatever kind of object the callee is, or the frame
\* limit is non-zero and reached and the callee is a function for which a
\* frame is saved; a limit of zero never raises it.
C11_TwoIndependentLimits ==
  CalledObject
  => ( obs.x.t = "rangeError"
       <=> \/ LimitReached(r.stackDepthLimit, obs.pre)
           \/ /\ SavesFrame(CalleeOf(obs.pre))
              /\ LimitReached(obs.pre.maxCallStackSize, obs.pre) )

\* C11 witness: with the frame limit off, the call of a bound function made
\* from a scripted function raised the range error of the call-time limit.
C11_Witness ==
  /\ CalledObject
  /\ Kind(CalleeOf(obs.pre)) = "boundFuncObject"
  /\ obs.x.t = "rangeError"
  /\ obs.pre.maxCallStackSize = 0
  /\ Len(obs.pre.callStack) >= 1

\* m2 is m but for the interrupt flag.
SameButFlag(m, m2) == m2 = [m EXCEPT !.interrupted = m2.interrupted]

\* C12: with the flag set the loop executes no instruction: its next
\* iteration sees the flag, reads a callback payload and calls it, all with
\* the VM untouched; when the callback returns the flag is cleared, nothing
\* else of the VM changes, and the loop is back at its top with the
\* instruction pointer and stacks it had.
C12_CallbackAtInstructionBoundary ==
  [][ RunStep =>
      /\ obs'.ev \in {"exec", "enterTry"} => vm.interrupted = 0
      /\ (InLoop("loop") /\ ~vm.halt /\ vm.interrupted # 0)
         => /\ obs'.ev = "seeInterrupt"
            /\ vm' = vm
            /\ Top(gs').pos = "readval"
      /\ (InLoop("readval") /\ IsFunc(vm.interruptVal))
         => /\ vm' = vm
            /\ Top(gs').pos = "callback"
            /\ Top(gs').fn = vm.interruptVal
      /\ (InLoop("callback") /\ callback(Top(gs).fn) = NoPanic)
         => /\ vm' = vm
            /\ panicv' = NoPanic
            /\ Top(gs').pos = "store"
      /\ InLoop("store")
         => /\ SameButFlag(vm, vm')
            /\ vm'.interrupted = 0
            /\ panicv' = NoPanic
            /\ Len(gs') = Len(gs)
            /\ Top(gs').pos = "loop" ]_vars

\* C12 witness: a callback called between two instructions of a program has
\* returned and the loop is back at its top, at the instruction it had
\* reached.
C12_Witness ==
  /\ obs.ev = "storeFlag"
  /\ InLoop("loop")
  /\ vm.pc > 0
  /\ vm.sp > 0
  /\ ~vm.halt
  /\ SameButFlag(obs.pre, vm)

\* C13: a request the loop has not acted upon is never dropped: while it is
\* pending the interrupt flag stays set, so that the loop acts upon it in
\* its next iteration, unless the run is being ended by an interrupt
\* condition already.
C13_RequestNeverDropped ==
  [][ (pend # 0 /\ vm.interrupted # 0)
      => (vm'.interrupted # 0 \/ pend' = 0 \/ panicv' # NoPanic) ]_vars

\* C14: when vm.run has left its loop because of an interrupt, it ends by
\* raising a condition.
C14_InterruptedRunRaises ==
  obs.ev = "afterLoop" => panicv # NoPanic

\* The step in which the loop calls a callback that raises.
CallbackRaises ==
  /\ RunStep
  /\ InLoop("callback")
  /\ callback(Top(gs).fn) # NoPanic

RaisedFor(v) == IF IsError(v) THEN Panic("error", v) ELSE Panic("uncatchable", v)

\* C16: when the payload the loop reads is not a callback, the loop is left
\* with the VM untouched and no instruction executed, and the code after
\* the loop, finding a payload that is not a callback, raises the payload
\* itself when it is an error and otherwise an uncatchable condition whose
\* InterruptedError holds the payload.
C16_NonCallbackPayload ==
  [][ RunStep =>
      /\ (InLoop("readval") /\ ~IsFunc(vm.interruptVal))
         => /\ vm' = vm
            /\ panicv' = NoPanic
            /\ Len(gs') = Len(gs)
            /\ Top(gs').pos = "after"
      /\ (InLoop("after") /\ ~IsFunc(vm.interruptVal))
         => /\ obs'.ev = "afterLoop"
            /\ panicv' = RaisedFor(vm.interruptVal)
            /\ gs' = gs
            /\ vm'.interruptVal = NIL
            /\ vm'.pc = vm.pc ]_vars

\* C16 witness: an error payload stopped the loop in the middle of the
\* program and was raised as it is.
C16_Witness ==
  /\ obs.ev = "afterLoop"
  /\ panicv = Panic("error", "err")
  /\ obs.pre.interruptVal = "err"
  /\ vm.pc > 0
  /\ ~vm.halt

\* ------------------------------------------- properties of the accessors
\* The pointer of the innermost record that contains the name, 0 if none: a
\* with scope contains it when its object has the property and does not
\* exclude it, a slot-backed record when its names map has it.
RECURSIVE Innermost(_, _, _)
Innermost(m, si, name) ==
  IF si = 0 THEN 0
  ELSE IF (IF ~m.stash[si].obj.nil THEN stashObjHas(m.stash[si].obj, name)
           ELSE HasName(m.stash[si], name))
  THEN si
  ELSE Innermost(m, si - 1, name)

\* The stack slot loadStackLex and storeStackLex address with operand l.
StackSlot(m, l) == IF l < 0 THEN m.sb - l ELSE m.sb + m.args + l

\* The instruction ev with operands a is about to read or write a let or
\* const slot that is not initialized.
UninitializedAccess(ev, a) ==
  CASE ev = "loadStackLex" ->
         ~(a.l < 0 /\ (0 - a.l) > vm.args) /\ At(vm, StackSlot(vm, a.l)) = NIL
    [] ev = "storeStackLex" -> At(vm, StackSlot(vm, a.l)) = NIL
    [] ev \in {"loadStack1Lex", "storeStack1Lex"} -> At(vm, vm.sb + a.l) = NIL
    [] ev \in {"loadStashLex", "storeStashLex"} ->
         vm.stash[Outer(vm, a.level)].values[a.idx + 1] = NIL
    [] ev = "loadDynamic" ->
         LET si == Innermost(vm, Len(vm.stash), a.name)
         IN  /\ si # 0
             /\ vm.stash[si].obj.nil
             /\ ~NameIdx(vm.stash[si], a.name).var
             /\ vm.stash[si].values[NameIdx(vm.stash[si], a.name).i + 1] = NIL
    [] ev \in {"getValue", "putValue"} ->
         /\ a.kind \in {"stashRefLex", "stashRefConst"}
         /\ vm.stash[a.base].values[a.idx + 1] = NIL
    [] OTHER -> FALSE

\* C17: an instruction that reads or writes a let or const slot that is not
\* initialized raises the access-before-initialization error, pushes
\* nothing and leaves every slot as it was, whichever of loadStackLex,
\* loadStack1Lex, loadStashLex, storeStackLex, storeStack1Lex, storeStashLex,
\* getByName (loadDynamic) and get or set through a let or const reference
\* it is.
C17_AccessBeforeInit ==
  [][ UninitializedAccess(obs'.ev, obs'.fr)
      => /\ panicv' = errAccessBeforeInit
         /\ vm'.stash = vm.stash
         /\ vm'.stack = vm.stack
         /\ vm'.sp = vm.sp ]_vars


\* The reference on top of the reference stack.
TopRef(m) == m.refStack[Len(m.refStack)]

\* C18: a set through a const reference leaves every slot as it was; it
\* raises the assign-to-const error when the reference's flag is set and
\* otherwise does nothing but pop the reference.  The flag of a const
\* reference that resolveVar1 or resolveVar1Strict resolves is set exactly
\* when the resolution is strict or the index word of the binding has the
\* strict bit, and a const binding that createLexBinding has just created
\* is resolved to a reference with the flag set.
C18_ConstSet ==
  [][ /\ (obs'.ev = "putValue" /\ obs'.fr.kind = "stashRefConst")
         => /\ vm'.stash = vm.stash
            /\ vm'.stack = vm.stack
            /\ IF obs'.fr.strict
               THEN panicv' = errAssignToConst
               ELSE /\ panicv' = NoPanic
                    /\ vm' = [vm EXCEPT !.refStack = SubSeq(vm.refStack, 1, Len(vm.refStack) - 1),
                                        !.pc = vm.pc + 1]
      /\ (obs'.ev \in {"resolveVar1", "resolveVar1Strict"} /\ TopRef(vm').kind = "stashRefConst")
         => /\ TopRef(vm').strict =
                 (obs'.fr.strict \/ NameIdx(vm.stash[TopRef(vm').base], obs'.fr.name).strict)
            /\ (obs.ev = "createLexBinding" /\ obs.fr.isConst /\ TopRef(vm').base = Len(vm.stash))
               => TopRef(vm').strict ]_vars

\* C18 witness: a set through a const reference whose flag is clear went
\* through without an error, on a slot that holds a value.
C18_Witness ==
  /\ obs.ev = "putValue"
  /\ obs.fr.kind = "stashRefConst"
  /\ ~obs.fr.strict
  /\ panicv = NoPanic
  /\ vm.stash[obs.fr.base].values[obs.fr.idx + 1] \notin {NIL, "new"}
  /\ vm.pc = 2


\* The value bound to the name in the record at pointer si (NIL: none yet).
BindingValue(m, si, name) ==
  IF ~m.stash[si].obj.nil THEN getStr(m.stash[si].obj, name)
  ELSE m.stash[si].values[NameIdx(m.stash[si], name).i + 1]

\* The binding in the record at pointer si is a let or a const.
IsLexical(m, si, name) == m.stash[si].obj.nil /\ ~NameIdx(m.stash[si], name).var

\* C19: loadDynamic and resolveVar1Strict use the binding of the innermost
\* scope record that contains the name, where a with scope contains it only
\* when its object has the property and does not exclude it: loadDynamic
\* pushes the value of that binding (undefined for a var without a value,
\* the access-before-initialization error for a let or const without one)
\* and resolveVar1Strict pushes a reference to that record.  Only when no
\* record contains the name is the global object consulted, and only when
\* the global object lacks it too does loadDynamic raise the not-defined
\* error and resolveVar1Strict push an unresolved reference.
C19_DynamicLookup ==
  [][ LET n  == obs'.fr.name
          si == Innermost(vm, Len(vm.stash), n)
      IN  /\ obs'.ev = "loadDynamic"
             => IF si # 0
                THEN LET v == BindingValue(vm, si, n)
                     IN  IF v = NIL /\ IsLexical(vm, si, n)
                         THEN panicv' = errAccessBeforeInit
                         ELSE /\ panicv' = NoPanic
                              /\ vm'.sp = vm.sp + 1
                              /\ At(vm', vm.sp) = nilSafe(v)
                ELSE IF GlobalHas(n)
                THEN panicv' = NoPanic /\ vm'.sp = vm.sp + 1 /\ At(vm', vm.sp) = GlobalGet(n)
                ELSE panicv' = throwReferenceError(n) /\ vm'.sp = vm.sp
          /\ obs'.ev = "resolveVar1Strict"
             => /\ panicv' = NoPanic
                /\ Len(vm'.refStack) = Len(vm.refStack) + 1
                /\ TopRef(vm').name = n
                /\ IF si # 0
                   THEN /\ TopRef(vm').base = si
                        /\ TopRef(vm').kind =
                             IF ~vm.stash[si].obj.nil THEN "objRef"
                             ELSE IF NameIdx(vm.stash[si], n).var THEN "stashRef"
                             ELSE IF NameIdx(vm.stash[si], n).cnst THEN "stashRefConst"
                             ELSE "stashRefLex"
                   ELSE /\ TopRef(vm').base = 0
                        /\ TopRef(vm').kind = IF GlobalHas(n) THEN "objRef" ELSE "unresolvedRef" ]_vars

\* C19 witness: loadDynamic pushed the value of the outer of two records
\* because the object of the inner with scope has the property and excludes
\* it, for a name the global object has too.
C19_Witness ==
  /\ obs.ev = "loadDynamic"
  /\ panicv = NoPanic
  /\ Len(vm.stash) = 2
  /\ ~vm.stash[2].obj.nil
  /\ hasPropertyStr(vm.stash[2].obj, scn.name)
  /\ scn.name \in vm.stash[2].obj.unscopables
  /\ GlobalHas(scn.name)
  /\ At(vm, vm.sp - 1) = "v1"


\* The instruction of the fully dynamic walk that a resolveMixed with the
\* given strictness stands for.
resolveDynamic(m, name, strict) ==
  IF strict THEN resolveVar1Strict_exec(m, name) ELSE resolveVar1_exec(m, name)

FrameSnap(m) == m.calls[Len(m.callStack)]
CallInstrOf(m) == Code(FrameSnap(m).ctx.prg)[FrameSnap(m).ctx.pc]

\* The caller's program, scope chain, stack base, argument count and frame
\* count in m2 are those of m1.
SameCaller(m1, m2) ==
  /\ m2.prg = m1.prg
  /\ m2.stash = m1.stash
  /\ m2.sb = m1.sb
  /\ m2.args = m1.args
  /\ Len(m2.callStack) = Len(m1.callStack)

\* A call of a native function, a bound function or a proxy that returns:
\* the whole call is one step.
NativeCallCompletes ==
  /\ ExecInstr
  /\ Instr(vm).op = "call"
  /\ panicv' = NoPanic
  /\ Kind(At(vm, vm.sp - Instr(vm).a - 1))
       \in {"nativeFuncObject", "boundFuncObject", "proxyObject"}

\* The ret instruction of a scripted function (ordinary, method or arrow)
\* that was entered by a call instruction.
ScriptedCallCompletes ==
  /\ ExecInstr
  /\ Instr(vm).op = "ret"
  /\ panicv' = NoPanic
  /\ Len(vm.callStack) >= 1
  /\ CallInstrOf(vm).op = "call"

\* C21: for every callee kind, when a call with n arguments completes
\* normally the operand stack pointer is n + 1 lower than at the call, the
\* result is in the slot that held the receiver, and the caller's program,
\* scope chain, stack base, argument count and frame count are as they were
\* at the call.
C21_CallingConvention ==
  [][/\ NativeCallCompletes
        => LET n == Instr(vm).a
           IN  /\ vm'.sp = vm.sp - (n + 1)
               /\ At(vm', vm.sp - n - 2) =
                    (IF HasGoFunc(At(vm, vm.sp - n - 1)) THEN NativeResult ELSE undefined)
               /\ SameCaller(vm, vm')
     /\ ScriptedCallCompletes
        => LET c == FrameSnap(vm)
               n == CallInstrOf(vm).a
           IN  /\ vm'.sp = c.sp - (n + 1)
               /\ At(vm', c.sp - n - 2) = At(vm, vm.sp - 1)
               /\ vm'.prg = c.ctx.prg
               /\ vm'.stash = c.ctx.stash
               /\ vm'.sb = c.ctx.sb
               /\ vm'.args = c.ctx.args
               /\ Len(vm'.callStack) = c.frames]_vars

\* C21 witness: a method called with at least one argument more than it
\* declares has returned its rest array into the receiver's slot.
C21_Witness ==
  /\ obs.ev = "exec" /\ obs.y = "ret" /\ obs.x = NoPanic
  /\ obs.pre.prg = "Meth"
  /\ scn.nargs > scn.params
  /\ scn.nargs >= 1
  /\ vm.prg \in {"main", "F1"}
  /\ At(vm, vm.sp - 1) = ArrayIds[1]
  /\ vm.sp = FrameSnap(obs.pre).sp - (scn.nargs + 1)


\* ---------------------------------------------------------------- C22
\* A step in which popCtx restores the frame that the pushCtx of the same
\* step saved: the call of a native function with a Go function, of a bound
\* function or of a proxy.
PushThenPop ==
  /\ NativeCallCompletes
  /\ HasGoFunc(At(vm, vm.sp - Instr(vm).a - 1))

\* A step in which popCtx restores a frame saved by an earlier step: ret.
PopsFrame ==
  /\ ExecInstr
  /\ Instr(vm).op = "ret"
  /\ panicv' = NoPanic
  /\ Len(vm.callStack) >= 1

\* The references of a frame are cleared.
Cleared(ctx) ==
  ctx.prg = NIL /\ ctx.stash = <<>> /\ ctx.result = NIL /\ ctx.newTarget = NIL

\* C22: restoring a saved frame gives back the program, scope chain,
\* new-target, pending result, program counter, stack base, argument count
\* and frame count of the state that was saved, and the element popCtx
\* leaves behind in the array has its program, scope, result and new-target
\* cleared.
C22_SaveRestoreIdentity ==
  [][/\ PushThenPop
        => /\ saveCtx(vm') = [saveCtx(vm) EXCEPT !.pc = vm.pc + 1]
           /\ Len(vm'.callStack) = Len(vm.callStack)
           /\ Cleared(vm'.spare[1])
     /\ PopsFrame
        => /\ saveCtx(vm') = FrameSnap(vm).ctx
           /\ Len(vm'.callStack) = FrameSnap(vm).frames
           /\ Cleared(vm'.spare[1])]_vars

\* C22 witness: ret has restored a frame whose program, pending result and
\* scope differ from what the callee had, and the element is cleared.
C22_Witness ==
  /\ obs.ev = "exec" /\ obs.y = "ret" /\ obs.x = NoPanic
  /\ Len(obs.pre.callStack) >= 1
  /\ vm.result = "r0" /\ obs.pre.result = "r1"
  /\ obs.pre.newTarget # NIL /\ vm.newTarget = NIL
  /\ vm.prg # obs.pre.prg
  /\ vm.stash # obs.pre.stash
  /\ Cleared(vm.spare[1])
  /\ FrameSnap(obs.pre).ctx.prg # NIL


\* ---------------------------------------------------------------- C23
\* A function entry instruction is executed: the state before it is the one
\* call.exec left, with the vm.args actual arguments on top of the stack.
EntersFunction ==
  /\ ExecInstr
  /\ Instr(vm).op \in {"enterFuncStashless", "enterFunc", "enterFunc1"}
  /\ panicv' = NoPanic

\* The entry instruction moves the arguments to the scope record.
MovesArgs(ins) == ins.op = "enterFunc1" \/ (ins.op = "enterFunc" /\ ins.b = 1)

\* The number of named parameters of the entry instruction ins.
NumArgs(ins) == IF ins.op = "enterFuncStashless" THEN ins.b ELSE ins.a

\* Actual argument i (from 0) of the call that led to state m.
ActualArg(m, i) == At(m, m.sp - m.args + i)

\* Where argument or parameter i is after the entry instruction ins: the
\* slot of the new scope record, or the stack slot above this.
ParamAfter(ins, m, i) ==
  IF MovesArgs(ins) THEN m.stash[Len(m.stash)].values[i + 1] ELSE At(m, m.sb + 1 + i)

\* A rest-parameter instruction is executed.
BuildsRest ==
  /\ ExecInstr
  /\ Instr(vm).op \in {"createArgsRestStack", "createArgsRestStash"}
  /\ panicv' = NoPanic

NewOnNonConstructible ==
  /\ ExecInstr
  /\ Instr(vm).op = "new"
  /\ LET obj == At(vm, vm.sp - Instr(vm).a - 1)
     IN  /\ IsObject(obj)
         /\ ~HasConstructor(obj)
         /\ Kind(obj) # "nativeFuncObject"

\* C24: new on an object with neither a constructor behaviour nor a native
\* function raises a type error and never completes normally.
C24_NewRaisesTypeError ==
  [][NewOnNonConstructible
       => panicv' \in {Panic("typeError", "notConstructor"), Panic("Value", "TypeError")}]_vars


\* ---------------------------------------------------------------- C25
\* C25: between instructions every operand stack slot at or above the stack
\* pointer holds the empty value.
C25_NoStaleSlots ==
  InLoop("loop") => \A i \in vm.sp..(Len(vm.stack) - 1) : At(vm, i) = NIL


\* ---------------------------------------------------------------- C26
\* The operands and the result of the binary instruction of a run.
LeftOperand == At(obs.pre, 0)
RightOperand == At(obs.pre, 1)
Result == At(vm, 0)
Executed(ops) == outcome = "num" /\ obs.ev \in ops

IsInteger(v) == v.t \in {"valueInt", "valueInt64"}

\* The exact result of an arithmetic instruction on integers.
Exact(op, a, b) ==
  CASE op = "add" -> a + b
    [] op = "sub" -> a - b
    [] op = "mul" -> a * b

\* C26: add, sub and mul of integer operands never yield a wrapped integer;
\* when the exact result does not fit the representation in use (safe-range
\* integer, wide 64-bit integer) the result is the float of the exact
\* result; the largest safe integer 2^MantBits - 1 plus 1 is the float
\* 2^MantBits.
C26_NoWrappedInteger ==
  Executed({"add", "sub", "mul"}) /\ IsInteger(LeftOperand) /\ IsInteger(RightOperand)
  => LET e == Exact(obs.ev, IntOf(LeftOperand), IntOf(RightOperand))
     IN  /\ IsInteger(Result) => IntOf(Result) = e
         /\ LeftOperand.t = "valueInt" /\ RightOperand.t = "valueInt"
              /\ (e > maxInt \/ e < 0 - maxInt)
              => Result = FloatOfInt(e)
         /\ LeftOperand.t = "valueInt64" /\ RightOperand.t = "valueInt64"
              /\ (e > MaxInt64 \/ e < MinInt64)
              => Result = FloatOfInt(e)
         /\ obs.ev = "add" /\ LeftOperand = valueInt(Pow2(MantBits) - 1)
              /\ RightOperand = valueInt(1)
              => Result = FloatOfInt(Pow2(MantBits))

\* ---------------------------------------------------------------- C27
\* v is the number i as an integer of either type or as a float (not the
\* negative zero).
IsNumber(v, i) == v.c = "fin" /\ v.d = 1 /\ IntOf(v) = i /\ ~(v.n = 0 /\ v.neg)

\* C27: -1 * 0 and 0 * -1 are negative zero, and 1 * 0 is a zero whose sign
\* bit is clear.
C27_NegativeZeroProduct ==
  Executed({"mul"})
  => /\ (IsNumber(LeftOperand, 0 - 1) /\ IsNumber(RightOperand, 0))
          \/ (IsNumber(LeftOperand, 0) /\ IsNumber(RightOperand, 0 - 1))
        => Result = negativeZero
     /\ IsNumber(LeftOperand, 1) /\ IsNumber(RightOperand, 0)
        => Result.c = "fin" /\ Result.n = 0 /\ ~Result.neg /\ Result # negativeZero

\* C27 witness: the product of the integers 0 and -1 is the negative zero.
C27_Witness ==
  /\ Executed({"mul"})
  /\ LeftOperand = valueInt(0) /\ RightOperand = valueInt(0 - 1)
  /\ Result = negativeZero

\* ---------------------------------------------------------------- C28
\* Infinity or zero of the sign the operands' sign bits give.
SignedInf(a, b) == IF a.neg = b.neg THEN positiveInf ELSE negativeInf
SignedZero(a, b) == IF a.neg = b.neg THEN positiveZero ELSE negativeZero

\* C28: division gives NaN if an operand is NaN, both are infinite or both
\* are zero; else an infinity for an infinite dividend or a zero divisor and
\* a zero for an infinite divisor, positive exactly when the sign bits
\* agree; -0 / 1 is the negative zero; and it never raises.
C28_DivisionTable ==
  Executed({"div"})
  => LET a == ToFloat(LeftOperand)
         b == ToFloat(RightOperand)
     IN  /\ panicv = NoPanic
         /\ IsNaN(a) \/ IsNaN(b) \/ (IsInf(a) /\ IsInf(b)) \/ (IsZero(a) /\ IsZero(b))
              => Result = NaNValue
         /\ ~IsNaN(a) /\ ~IsNaN(b) /\ ~(IsInf(a) /\ IsInf(b)) /\ ~(IsZero(a) /\ IsZero(b))
              => /\ IsInf(a) \/ IsZero(b) => Result = SignedInf(a, b)
                 /\ ~IsInf(a) /\ IsInf(b) => Result = SignedZero(a, b)
         /\ a = negativeZero /\ IsNumber(b, 1) => Result = negativeZero

\* C28 witness: -1 / 0 with the integer zero is -Infinity.
C28_Witness ==
  /\ Executed({"div"})
  /\ LeftOperand = valueInt(0 - 1) /\ RightOperand = valueInt(0)
  /\ Result = negativeInf
  /\ panicv = NoPanic


\* ---------------------------------------------------------------- C29
\* The four relational results for the operands a and b.
Lt(a, b) == op_lt_value(a, b)
Lte(a, b) == op_lte_value(a, b)
Gt(a, b) == op_gt_value(a, b)
Gte(a, b) == op_gte_value(a, b)

Not(v) == IF v = valueTrue THEN valueFalse ELSE valueTrue

\* C29: with a NaN operand <, <=, > and >= all give false; for comparable
\* operands a <= b is the negation of b < a and a >= b that of a < b.
C29_RelationalOperators ==
  Executed({"op_lt", "op_lte", "op_gt", "op_gte"})
  => LET a == LeftOperand
         b == RightOperand
         nan == IsNaN(ToFloat(a)) \/ IsNaN(ToFloat(b))
     IN  /\ Result \in {valueTrue, valueFalse}
         /\ nan => Result = valueFalse
         /\ ~nan /\ obs.ev = "op_lte" => Result = Not(Lt(b, a))
         /\ ~nan /\ obs.ev = "op_gte" => Result = Not(Lt(a, b))
         /\ ~nan /\ obs.ev = "op_gt" => Result = Lt(b, a)
         /\ ~nan /\ obs.ev = "op_lt"
              => (Result = valueTrue
                    <=> flt(ToFloat(a), ToFloat(b)) \/ (a.t = b.t /\ IsInteger(a)
                                                          /\ IntOf(a) < IntOf(b)))

\* C29 witness: NaN <= 1 is false, where 1 < NaN is false too.
C29_Witness ==
  /\ Executed({"op_lte"})
  /\ LeftOperand = NaNValue /\ RightOperand = valueInt(1)
  /\ Result = valueFalse
  /\ Lt(RightOperand, LeftOperand) = valueFalse


\* ---------------------------------------------------------------- C30
\* C30: in a slot-backed scope record distinct names have distinct slot
\* indices, and every index lies within the values array.
C30_DistinctSlots ==
  outcome = "bind"
  => LET st == vm.stash[Len(vm.stash)]
     IN  /\ \A p \in st.names, q \in st.names : p.n # q.n => p.i # q.i
         /\ \A q \in st.names : q.i < Len(st.values)


\* ------------------------------------------------------------------- C31
\* initValueP has just run through a let or const reference whose slot was
\* not initialized.
InitOfUninitialized ==
  /\ obs.ev = "initValueP"
  /\ obs.fr.kind \in {"stashRefLex", "stashRefConst"}
  /\ obs.pre.stash[obs.fr.base].values[obs.fr.idx + 1] = NIL

\* C31: init through a let or const reference on a slot that is not
\* initialized stores the value on top of the stack in the slot, so that the
\* binding is initialized afterwards, and raises no error.
C31_InitStoresValue ==
  InitOfUninitialized
    => /\ panicv = NoPanic
       /\ vm.stash[obs.fr.base].values[obs.fr.idx + 1] = At(obs.pre, obs.pre.sp - 1)


\* ------------------------------------------------------------------- C32
\* This step makes vm.run surface an interrupt: the code after the loop has
\* run, or the callback called in the loop has raised.
SurfacesInterrupt ==
  \/ obs'.ev = "afterLoop" /\ obs' # obs
  \/ obs'.ev = "callback" /\ obs' # obs /\ panicv' # NoPanic

\* C32: when vm.run has surfaced an interrupt, whatever the payload was, the
\* interrupt flag is clear and the payload slot is empty.
C32_SurfacedInterruptCleared ==
  [][ SurfacesInterrupt => vm'.interrupted = 0 /\ vm'.interruptVal = NIL ]_vars


\* ------------------------------------------------------------------- C33
\* The loop acts upon a request in this step: it calls the callback, or it
\* runs the code after the loop, which surfaces the payload.
ActsUponRequest ==
  /\ obs' # obs
  /\ obs'.ev \in {"callback", "afterLoop"}

\* C33: once ClearInterrupt has returned, a request made before it that the
\* loop had not acted upon is never acted upon: no callback is called and
\* no payload is surfaced until Interrupt is called again.
C33_ClearedNeverActedUpon ==
  [][ pend < 0 => ~ActsUponRequest ]_vars


\* ------------------------------------------------------------------- C34
\* C34: after enterFunc with argsToStash, every slot of the new scope record
\* at an index at or beyond the number of named parameters is empty, however
\* many arguments were passed.
C34_LocalSlotsEmpty ==
  [][ (EntersFunction /\ Instr(vm).op = "enterFunc" /\ Instr(vm).b = 1)
      => LET values == vm'.stash[Len(vm'.stash)].values
         IN  \A i \in 1..Len(values) : i > NumArgs(Instr(vm)) => values[i] = NIL ]_vars


\* ------------------------------------------------------------------- C35
\* C35: when the unwind of vm.try has closed several iterators opened under
\* it, each once, the one opened later was closed earlier.
C35_ClosedInReverseOrder ==
  obs.ev = "tryExit"
  => \A a, b \in OpenIters(obs.pre, obs.fr.iterLen) :
       (a < b /\ iters[a].closes = 1 /\ iters[b].closes = 1)
         => iters[b].closedAt < iters[a].closedAt


\* ------------------------------------------------------------------- C36
\* A panic reaches vm.try with iterators open under it; closing one of them
\* raises a catchable exception and closing none raises an uncatchable
\* condition.
UnwindWithFailingClose ==
  /\ outcome = "running"
  /\ panicv # NoPanic
  /\ gs # <<>>
  /\ Top(gs).k = "try"
  /\ obs'.ev = "tryExit"
  /\ obs'.pre = vm
  /\ \E id \in OpenIters(vm, Top(gs).iterLen) : CloseMode(iters[id].src) = "throw"
  /\ NoFatalClose(Top(gs))

\* C36: when closing an iterator during the unwind of vm.try raises a
\* catchable exception, every iterator opened under vm.try is still closed,
\* the stacks are cut to their lengths at entry, and what vm.try hands on
\* is the original condition: the exception of a catchable one, the panic
\* itself otherwise.
C36_CloseFailureDoesNotMask ==
  [][ UnwindWithFailingClose
      => LET fr == Top(gs)
         IN  /\ \A id \in OpenIters(vm, fr.iterLen) : iters'[id].closes = iters[id].closes + 1
             /\ Len(vm'.iterStack) = fr.iterLen
             /\ Len(vm'.refStack) = fr.refLen
             /\ Len(vm'.callStack) = fr.ctxOffset
             /\ vm'.sp = fr.sp
             /\ IF IsCatchable(panicv)
                THEN /\ panicv' = NoPanic
                     /\ Len(gs) > 1 => /\ Top(gs').ex = Ex(ThrownValue(panicv))
                                       /\ Top(gs').thrown = panicv
                ELSE panicv' = panicv ]_vars

\* C36 witness: vm.try has returned the exception of the thrown value "b"
\* after closing two iterators, the first of which raised on its close.
C36_Witness ==
  /\ obs.ev = "tryExit"
  /\ obs.x = Panic("Value", "b")
  /\ panicv = NoPanic
  /\ gs # <<>>
  /\ Top(gs).ex = Ex("b")
  /\ Cardinality(OpenIters(obs.pre, obs.fr.iterLen)) = 2
  /\ \A id \in OpenIters(obs.pre, obs.fr.iterLen) :
       CloseMode(iters[id].src) = "throw" /\ iters[id].closes = 1
  /\ Len(vm.iterStack) = obs.fr.iterLen


\* ------------------------------------------------------------------- C37
\* The new instruction falls back to the Go function of a native function
\* object that has no constructor behaviour.
NewFallsBackToNative ==
  /\ ExecInstr
  /\ Instr(vm).op = "new"
  /\ panicv' = NoPanic
  /\ LET obj == At(vm, vm.sp - Instr(vm).a - 1)
     IN  /\ ~HasConstructor(obj)
         /\ Kind(obj) = "nativeFuncObject"
         /\ HasGoFunc(obj)

\* C37: the native function that new(n) falls back to receives exactly the
\* n arguments below the stack pointer.
C37_NativeFallbackArguments ==
  [][ NewFallsBackToNative
      => vm'.arguments = Slice(vm.stack, vm.sp - Instr(vm).a, vm.sp) ]_vars


\* ------------------------------------------------------------------- C38
\* The call instruction enters an ordinary scripted function: a function
\* object or a method.
CallsOrdinaryFunction ==
  /\ ExecInstr
  /\ Instr(vm).op = "call"
  /\ panicv' = NoPanic
  /\ Kind(At(vm, vm.sp - Instr(vm).a - 1)) \in {"funcObject", "methodFuncObject"}

\* C38: an ordinary scripted function entered through the call instruction
\* has an empty new-target, whatever the caller's was, and loadNewTarget
\* gives it undefined.
C38_OrdinaryCalleeNewTarget ==
  [][ /\ CallsOrdinaryFunction => vm'.newTarget = NIL
      /\ ( /\ ExecInstr
           /\ Instr(vm).op = "loadNewTarget"
           /\ Kind(vm.prg) \in {"funcObject", "methodFuncObject"} )
         => At(vm', vm'.sp - 1) = undefined ]_vars


\* ------------------------------------------------------------------- C39
\* Both operands of the instruction pass assertInt64.
BothInt64 == assertInt64(LeftOperand).ok /\ assertInt64(RightOperand).ok

\* The reverse-division check of _mul accepts the 64-bit product of l and g.
CheckAccepts(l, g) == l = 0 \/ g = 0 \/ GoDiv(WrapInt64(l * g), l) = g

\* C39: when both operands of mul are 64-bit integers and the
\* reverse-division check accepts their 64-bit product, the result is the
\* exact product; when it does not, the result is the float product.
C39_ReverseDivisionCheck ==
  (Executed({"mul"}) /\ BothInt64)
  => LET l == assertInt64(LeftOperand).result
         g == assertInt64(RightOperand).result
     IN  IF CheckAccepts(l, g)
         THEN Result = negativeZero \/ Result = intToValue(l * g)
         ELSE Result = floatToValue(fmul(ToFloat(LeftOperand), ToFloat(RightOperand)))


\* ------------------------------------------------------------------- C40
\* C40: the product of two integer operands is the double product of the
\* operands, with the sign of zero the double product has: zero times a
\* negative integer and a negative integer times zero are the negative
\* zero.
C40_ProductAsDouble ==
  (Executed({"mul"}) /\ IsInteger(LeftOperand) /\ IsInteger(RightOperand))
  => /\ ToFloat(Result) = fmul(ToFloat(LeftOperand), ToFloat(RightOperand))
     /\ (IntOf(LeftOperand) = 0 /\ IntOf(RightOperand) < 0)
          \/ (IntOf(LeftOperand) < 0 /\ IntOf(RightOperand) = 0)
        => Result = negativeZero

====
